---- MODULE Spec2Model ----
(***************************************************************************)
(* Module loader of bp3d-os (core/src/module): metadata values, the        *)
(* dependency / feature negotiation of DepsMap (loader/util.rs) and the    *)
(* reference-counted module registry of ModuleLoader (loader/core.rs).     *)
(*                                                                         *)
(* Strings are sequences of one-character strings, so that splitting,     *)
(* prefix tests and replacement are computed as the code computes them.    *)
(***************************************************************************)
EXTENDS Integers, Sequences, FiniteSets, TLC

\* ----------------------------------------------------------------- strings

\* str::starts_with
StartsWith(s, p) ==
    /\ Len(p) <= Len(s)
    /\ \A i \in 1..Len(p) : s[i] = p[i]

\* str::replace for a one-character pattern
ReplaceChar(s, from, to) ==
    [i \in 1..Len(s) |-> IF s[i] = from THEN to ELSE s[i]]

\* position (1-based) of the first occurrence of character c in s at or
\* after index i, 0 when there is none
RECURSIVE FindFrom(_, _, _)
FindFrom(s, c, i) ==
    IF i > Len(s) THEN 0
    ELSE IF s[i] = c THEN i
    ELSE FindFrom(s, c, i + 1)

\* str::split on a one-character separator: "" yields one empty item
RECURSIVE Split(_, _)
Split(s, sep) ==
    LET pos == FindFrom(s, sep, 1) IN
    IF pos = 0 THEN <<s>>
    ELSE <<SubSeq(s, 1, pos - 1)>> \o Split(SubSeq(s, pos + 1, Len(s)), sep)

\* Itertools::join / slice::join
RECURSIVE Join(_, _)
Join(items, sep) ==
    IF Len(items) = 0 THEN <<>>
    ELSE IF Len(items) = 1 THEN items[1]
    ELSE items[1] \o sep \o Join(Tail(items), sep)

\* ------------------------------------------------------------ metadata.rs

\* Value::as_list: None for the empty string, else the comma split
as_list(value) ==
    IF Len(value) = 0 THEN [some |-> FALSE, items |-> <<>>]
    ELSE [some |-> TRUE, items |-> Split(value, ",")]

\* one item of Value::parse_key_value_pairs: name with '-' replaced by '_',
\* version the second '='-separated part, InvalidDepFormat when there is none
parse_pair(item) ==
    LET parts == Split(item, "=") IN
    IF Len(parts) < 2
    THEN [ok |-> FALSE, name |-> <<>>, version |-> <<>>]
    ELSE [ok |-> TRUE, name |-> ReplaceChar(parts[1], "-", "_"), version |-> parts[2]]

\* Value::parse_key_value_pairs: None for the empty string, else the pairs
parse_key_value_pairs(value) ==
    LET l == as_list(value) IN
    [some |-> l.some, pairs |-> [i \in 1..Len(l.items) |-> parse_pair(l.items[i])]]


\* ------------------------------------------------------------- results

\* crate::module::Result<()>: Ok, or an Error with the fields it carries
\* (IncompatibleDependency {name, expected_version, actual_version},
\* IncompatibleFeatureSet(name), IncompatibleRustc {expected, actual})
Ok ==
    [ok |-> TRUE, kind |-> "Ok", name |-> <<>>,
     expected_version |-> <<>>, actual_version |-> <<>>]

Err(kind, name, expected, actual) ==
    [ok |-> FALSE, kind |-> kind, name |-> name,
     expected_version |-> expected, actual_version |-> actual]

ErrKind(kind) == Err(kind, <<>>, <<>>, <<>>)

\* the ? operator on a Result<()>: an error returns, Ok goes on with next
or_else(r, next) == IF ~r.ok THEN r ELSE next

\* HashMap::insert
Put(map, key, value) ==
    [k \in (DOMAIN map) \cup {key} |-> IF k = key THEN value ELSE map[k]]

\* the elements of a sequence
Range(seq) == {seq[i] : i \in 1..Len(seq)}

\* --------------------------------------------------- loader/util.rs: DepsMap

\* struct Dependency
Dependency(version, features, negative_features) ==
    [version |-> version, features |-> features,
     negative_features |-> negative_features]

\* DepsMap::new
DepsMapNew ==
    [deps_by_module |-> <<>>, module_by_dep |-> <<>>,
     module_version |-> <<>>, master |-> <<>>]

\* DepsMap::add_dep
add_dep(dm, name, dep) ==
    [dm EXCEPT !.master = Put(dm.master, name, dep)]

\* a walk that takes "*" for the name of a feature
RECURSIVE walk_features_literal(_, _, _)
walk_features_literal(dep_features, i, features) ==
    IF i > Len(dep_features) THEN "done"
    ELSE IF dep_features[i] \notin features THEN "missing"
    ELSE walk_features_literal(dep_features, i + 1, features)

\* the walk over the reference's feature list in check_deps: "wild" at the
\* first "*", "missing" at the first feature the candidate lacks, "done" at
\* the end of the list
RECURSIVE walk_features(_, _, _)
walk_features(dep_features, i, features) ==
    IF i > Len(dep_features) THEN "done"
    ELSE IF dep_features[i] = <<"*">> THEN "wild"
    ELSE IF dep_features[i] \notin features THEN "missing"
    ELSE walk_features(dep_features, i + 1, features)

\* a comparison of the major components only
version_differs_major(version, reference) ==
    SubSeq(version, 1, 1) # SubSeq(reference, 1, 1)

\* the comparison of a candidate's version for one dependency with the
\* reference's: string inequality
version_differs(version, reference) == version # reference

\* no feature token attributed to the dependency
features_none(items, name) == {}

\* the candidate's feature tokens that check_deps attributes to dependency name
features_of(items, name) ==
    {items[i] : i \in {j \in 1..Len(items) : StartsWith(items[j], name)}}

\* a feature check that only asks the candidate to cover the reference's list
check_features_superset(name, features, dep) ==
    LET fl == as_list(features)
        fs == IF fl.some THEN features_of(fl.items, name) ELSE {}
    IN  IF \E i \in 1..Len(dep.negative_features) : dep.negative_features[i] \in fs
        THEN Err("IncompatibleFeatureSet", name, <<>>, <<>>)
        ELSE IF walk_features(dep.features, 1, fs) = "missing"
        THEN Err("IncompatibleFeatureSet", name, <<>>, <<>>)
        ELSE Ok

\* the feature part of check_deps for one dependency found in deps2
check_features(name, features, dep) ==
    LET fl == as_list(features) IN
    IF fl.some
    THEN LET fs == features_of(fl.items, name)
             walk == walk_features(dep.features, 1, fs)
             flag == walk # "wild"
         IN  IF \E i \in 1..Len(dep.negative_features) :
                    dep.negative_features[i] \in fs
             THEN Err("IncompatibleFeatureSet", name, <<>>, <<>>)
             ELSE IF walk = "missing"
             THEN Err("IncompatibleFeatureSet", name, <<>>, <<>>)
             ELSE IF flag /\ Cardinality(fs) # Len(dep.features)
             THEN Err("IncompatibleFeatureSet", name, <<>>, <<>>)
             ELSE Ok
    ELSE IF Len(dep.features) # 0
    THEN Err("IncompatibleFeatureSet", name, <<>>, <<>>)
    ELSE Ok

\* the body of check_deps' loop for one entry of the candidate's DEPS
check_dep_entry(pair, features, deps2) ==
    IF ~pair.ok THEN ErrKind("InvalidDepFormat")
    ELSE IF pair.name \notin DOMAIN deps2 THEN Ok
    ELSE LET dep == deps2[pair.name] IN
         IF version_differs(pair.version, dep.version)
         THEN Err("IncompatibleDep", pair.name, dep.version, pair.version)
         ELSE check_features(pair.name, features, dep)

\* check_deps' loop from entry i on: the first error ends it
RECURSIVE check_deps_from(_, _, _, _)
check_deps_from(pairs, i, features, deps2) ==
    IF i > Len(pairs) THEN Ok
    ELSE or_else(check_dep_entry(pairs[i], features, deps2),
                 check_deps_from(pairs, i + 1, features, deps2))

\* check_deps
check_deps(deps, features, deps2) ==
    LET kv == parse_key_value_pairs(deps) IN
    IF kv.some THEN check_deps_from(kv.pairs, 1, features, deps2) ELSE Ok

\* module_by_dep.entry(name1).or_default().push(name) for each dependency
\* of the candidate, in DEPS order
RECURSIVE push_module_by_dep(_, _, _, _)
push_module_by_dep(module_by_dep, pairs, i, name) ==
    IF i > Len(pairs) THEN module_by_dep
    ELSE LET name1 == pairs[i].name
             old == IF name1 \in DOMAIN module_by_dep
                    THEN module_by_dep[name1] ELSE <<>>
         IN  push_module_by_dep(Put(module_by_dep, name1, Append(old, name)),
                                pairs, i + 1, name)

\* the feature list insert_module records for dependency name: the module's
\* feature tokens that start with the dependency's name, in order
recorded_features(features1, name) ==
    SelectSeq(features1, LAMBDA v : StartsWith(v, name))

\* deps2 of insert_module: each dependency with its version and recorded
\* features; a later entry of the same name replaces an earlier one
RECURSIVE build_deps2(_, _, _, _)
build_deps2(deps2, pairs, i, features1) ==
    IF i > Len(pairs) THEN deps2
    ELSE build_deps2(
            Put(deps2, pairs[i].name,
                Dependency(pairs[i].version,
                           recorded_features(features1, pairs[i].name), <<>>)),
            pairs, i + 1, features1)

\* DepsMap::insert_module: [res, deps]
insert_module(dm, name, version, deps, features) ==
    LET kv == parse_key_value_pairs(deps)
        deps3 == IF kv.some THEN kv.pairs ELSE <<>>
        fl == as_list(features)
        features1 == IF fl.some THEN fl.items ELSE <<>>
    IN  IF \E i \in 1..Len(deps3) : ~deps3[i].ok
        THEN [res |-> ErrKind("InvalidDepFormat"), deps |-> dm]
        ELSE [res |-> Ok,
              deps |-> [dm EXCEPT
                  !.module_by_dep = push_module_by_dep(@, deps3, 1, name),
                  !.deps_by_module =
                      Put(@, name, build_deps2(<<>>, deps3, 1, features1)),
                  !.module_version = Put(@, name, version)]]

\* a lookup that answers the dependency tables of the accepted modules among
\* m, n and p, whatever the name
every_module(dm, name) ==
    [some |-> TRUE,
     tables |-> [i \in 1..3 |->
                   IF <<<<"m">>, <<"n">>, <<"p">>>>[i] \in DOMAIN dm.deps_by_module
                   THEN dm.deps_by_module[<<<<"m">>, <<"n">>, <<"p">>>>[i]]
                   ELSE <<>>]]

\* DepsMap::get_module_by_dep: None, or the dependency tables of the modules
\* listed for name (the empty dummy table for a module without one)
get_module_by_dep(dm, name) ==
    IF name \notin DOMAIN dm.module_by_dep
    THEN [some |-> FALSE, tables |-> <<>>]
    ELSE LET l == dm.module_by_dep[name] IN
         [some |-> TRUE,
          tables |-> [i \in 1..Len(l) |->
                        IF l[i] \in DOMAIN dm.deps_by_module
                        THEN dm.deps_by_module[l[i]] ELSE <<>>]]

\* ------------------------------------------- loader/util.rs: check_metadata

K_TYPE == <<"T", "Y", "P", "E">>
K_NAME == <<"N", "A", "M", "E">>
K_VERSION == <<"V", "E", "R", "S", "I", "O", "N">>
K_RUSTC == <<"R", "U", "S", "T", "C">>
K_DEPS == <<"D", "E", "P", "S">>
K_FEATURES == <<"F", "E", "A", "T", "U", "R", "E", "S">>
T_RUST == <<"R", "U", "S", "T">>

\* the toolchain fingerprint this loader was built with (env!("RUSTC_VERSION"))
RUSTC_VERSION == <<"1", ".", "8", "5">>

\* the loop of check_metadata over the modules that list the candidate as a
\* dependency: check_deps against each one's table, the first error ends it
RECURSIVE check_against_tables(_, _, _, _)
check_against_tables(deps, features, tables, i) ==
    IF i > Len(tables) THEN Ok
    ELSE or_else(check_deps(deps, features, tables[i]),
                 check_against_tables(deps, features, tables, i + 1))

\* the version the direct inter-module check reports as actual_version
direct_actual_version(module_version, actual_version) == module_version

\* no direct check at all
check_direct_skipped(dm, pairs, i, deps, features, module_version) == Ok

\* the loop of check_metadata over the candidate's DEPS entries that name an
\* accepted module
RECURSIVE check_direct(_, _, _, _, _, _)
check_direct(dm, pairs, i, deps, features, module_version) ==
    IF i > Len(pairs) THEN Ok
    ELSE IF ~pairs[i].ok THEN ErrKind("InvalidDepFormat")
    ELSE IF pairs[i].name \in DOMAIN dm.deps_by_module
    THEN LET name == pairs[i].name
             actual_version == pairs[i].version
             version == dm.module_version[name]
         IN  IF version # actual_version
             THEN Err("IncompatibleDep", name, version,
                      direct_actual_version(module_version, actual_version))
             ELSE or_else(check_deps(deps, features, dm.deps_by_module[name]),
                          check_direct(dm, pairs, i + 1, deps, features,
                                       module_version))
    ELSE check_direct(dm, pairs, i + 1, deps, features, module_version)

\* a lookup under a name no module depends on
reverse_lookup_nothing(module_name) == <<>>

\* the name under which check_metadata looks up the modules to compare the
\* candidate with in the reverse index
reverse_lookup_key(module_name) == module_name

\* the checks of check_metadata for a RUST module, before the commit
check_rust(metadata, dm) ==
    LET deps == metadata[K_DEPS]
        features == metadata[K_FEATURES]
        module_name == metadata[K_NAME]
        module_version == metadata[K_VERSION]
        modules == get_module_by_dep(dm, reverse_lookup_key(module_name))
        kv == parse_key_value_pairs(deps)
    IN  or_else(check_deps(deps, features, dm.master),
        or_else(IF modules.some
                THEN check_against_tables(deps, features, modules.tables, 1)
                ELSE Ok,
                IF kv.some
                THEN check_direct(dm, kv.pairs, 1, deps, features, module_version)
                ELSE Ok))

\* the end of check_metadata: an error r of the checks returns with the
\* DepsMap as it was, Ok goes on to insert_module
insert_checked(r, metadata, dm) ==
    IF ~r.ok THEN [res |-> r, deps |-> dm]
    ELSE insert_module(dm, metadata[K_NAME], metadata[K_VERSION],
                       metadata[K_DEPS], metadata[K_FEATURES])

\* a negotiation that records the module before it checks it
check_metadata_eager(metadata, dm) ==
    LET has(k) == k \in DOMAIN metadata IN
    IF \A k \in {K_TYPE, K_RUSTC, K_DEPS, K_NAME, K_VERSION, K_FEATURES} : has(k)
    THEN LET ins == insert_module(dm, metadata[K_NAME], metadata[K_VERSION],
                                  metadata[K_DEPS], metadata[K_FEATURES])
         IN  [res |-> IF metadata[K_RUSTC] # RUSTC_VERSION
                      THEN Err("RustcVersionMismatch", <<>>, RUSTC_VERSION,
                               metadata[K_RUSTC])
                      ELSE or_else(check_rust(metadata, dm), ins.res),
              deps |-> ins.deps]
    ELSE [res |-> ErrKind("InvalidMetadata"), deps |-> dm]

\* check_metadata: [res, deps], deps the DepsMap after the call
check_metadata(metadata, dm) ==
    LET has(k) == k \in DOMAIN metadata
        fail(kind) == [res |-> ErrKind(kind), deps |-> dm]
    IN  IF ~has(K_TYPE) THEN fail("InvalidMetadata")
        ELSE IF metadata[K_TYPE] # T_RUST THEN [res |-> Ok, deps |-> dm]
        ELSE IF ~has(K_RUSTC) THEN fail("MissingVersionForRust")
        ELSE IF ~has(K_DEPS) THEN fail("MissingDepsForRust")
        ELSE IF ~has(K_NAME) THEN fail("MissingModuleName")
        ELSE IF ~has(K_VERSION) THEN fail("MissingModuleName")
        ELSE IF ~has(K_FEATURES) THEN fail("MissingFeaturesForRust")
        ELSE IF metadata[K_RUSTC] # RUSTC_VERSION
        THEN [res |-> Err("RustcVersionMismatch", <<>>, RUSTC_VERSION,
                          metadata[K_RUSTC]),
              deps |-> dm]
        ELSE insert_checked(check_rust(metadata, dm), metadata, dm)

\* ------------------------------------------------ build/src/lib.rs: DEPS

\* format!("{}={}", k, v) of one dependency
format_dep(dep) == dep[1] \o <<"=">> \o dep[2]

\* the DEPS value: the dependencies joined with ","
format_deps(dep_list) ==
    Join([i \in 1..Len(dep_list) |-> format_dep(dep_list[i])], <<",">>)

\* the FEATURES value: the feature tokens joined with ","
format_features(feature_list) == Join(feature_list, <<",">>)

\* the metadata map of a RUST module as the descriptor written by
\* ModuleMain::new carries it
rust_metadata(name, version, rustc, deps, features) ==
    [k \in {K_TYPE, K_NAME, K_VERSION, K_RUSTC, K_DEPS, K_FEATURES} |->
        CASE k = K_TYPE -> T_RUST
          [] k = K_NAME -> name
          [] k = K_VERSION -> version
          [] k = K_RUSTC -> rustc
          [] k = K_DEPS -> deps
          [] k = K_FEATURES -> features]

\* ------------------------------------ loader/util.rs: embedded descriptor

\* the zero byte
NUL == "NUL"

\* MOD_HEADER
MOD_HEADER ==
    <<"B", "P", "3", "D", "_", "O", "S", "_", "M", "O", "D", "U", "L", "E", "|">>

\* the static string ModuleMain::new emits: a zero byte, the header, the
\* key=value segments, a zero byte
descriptor(name, version, rustc, deps, features) ==
    <<NUL>> \o MOD_HEADER
    \o K_TYPE \o <<"=">> \o T_RUST
    \o <<"|">> \o K_NAME \o <<"=">> \o name
    \o <<"|">> \o K_VERSION \o <<"=">> \o version
    \o <<"|">> \o K_RUSTC \o <<"=">> \o rustc
    \o <<"|">> \o K_DEPS \o <<"=">> \o deps
    \o <<"|">> \o K_FEATURES \o <<"=">> \o features
    \o <<NUL>>

\* map.insert(key, value) for each segment from the i-th on
RECURSIVE insert_vars(_, _, _)
insert_vars(map, vars, i) ==
    IF i > Len(vars) THEN [res |-> Ok, metadata |-> map]
    ELSE LET pos == FindFrom(vars[i], "=", 1) IN
         IF pos = 0 THEN [res |-> ErrKind("InvalidMetadata"), metadata |-> <<>>]
         ELSE insert_vars(Put(map, SubSeq(vars[i], 1, pos - 1),
                              SubSeq(vars[i], pos + 1, Len(vars[i]))),
                          vars, i + 1)

\* a byte that no UTF-8 text holds
XFF == "xFF"

\* every byte string taken for text
any_bytes(bytes) == TRUE

\* std::str::from_utf8(bytes) is Ok
from_utf8(bytes) == \A i \in DOMAIN bytes : bytes[i] # XFF

\* parse_metadata: [res, metadata]
parse_metadata(bytes) ==
    LET data == SubSeq(bytes, 1, Len(bytes) - 1) IN
    IF ~from_utf8(data) THEN [res |-> ErrKind("InvalidUtf8"), metadata |-> <<>>]
    ELSE insert_vars(<<>>, Tail(Split(data, "|")), 1)

\* the scan of load_metadata over one buffer: from each 'B' up to the next
\* zero byte, until a piece starts with the header
RECURSIVE scan_buffer(_)
scan_buffer(slice) ==
    LET pos == FindFrom(slice, "B", 1) IN
    IF pos = 0 THEN [res |-> ErrKind("MissingMetadata"), metadata |-> <<>>]
    ELSE LET inner == SubSeq(slice, pos, Len(slice))
             end == FindFrom(inner, NUL, 1)
             v == SubSeq(inner, 1, end)
         IN  IF end = 0 THEN [res |-> ErrKind("MissingMetadata"), metadata |-> <<>>]
             ELSE IF StartsWith(v, MOD_HEADER) THEN parse_metadata(v)
             ELSE scan_buffer(SubSeq(inner, end + 1, Len(inner)))

\* load_metadata of a file shorter than the 8192-byte buffer: one read, the
\* rest of the buffer zero
load_metadata(bytes) == scan_buffer(bytes \o <<NUL>>)

\* the length of the buffer of load_metadata, 8192 in the code
BufferSize == 24

\* file.read(&mut buffer) at offset: the bytes read replace the first bytes of
\* the buffer, the rest of the buffer keeps what it held
file_read(file, offset, buffer) ==
    LET n == IF Len(file) - offset < BufferSize THEN Len(file) - offset
             ELSE BufferSize
    IN  [n |-> n,
         buffer |-> SubSeq(file, offset + 1, offset + n)
                    \o SubSeq(buffer, n + 1, BufferSize)]

\* the inner loop of load_metadata over the whole buffer after a read, with
\* the v that the reads before left: [found, parsed, v]
RECURSIVE scan_slice(_, _)
RECURSIVE scan_piece(_, _, _)
scan_slice(slice, v) ==
    LET pos == FindFrom(slice, "B", 1) IN
    IF pos = 0 THEN [found |-> FALSE, v |-> v]
    ELSE LET inner == SubSeq(slice, pos, Len(slice))
             nul == FindFrom(inner, NUL, 1)
             end == IF nul = 0 THEN Len(inner) ELSE nul
         IN  scan_piece(inner, end, v \o SubSeq(inner, 1, end))

\* the body of the inner loop after v.extend_from_slice(&inner[..end + 1])
scan_piece(inner, end, v) ==
    IF v[Len(v)] = NUL
    THEN IF StartsWith(v, MOD_HEADER)
         THEN [found |-> TRUE, parsed |-> parse_metadata(v), v |-> v]
         ELSE scan_slice(SubSeq(inner, end + 1, Len(inner)), <<>>)
    ELSE [found |-> FALSE, v |-> v]

\* CStr::from_ptr(ptr.offset(1)).to_bytes_with_nul() of a descriptor static
descriptor_bytes(data) == SubSeq(data, 2, FindFrom(data, NUL, 2))

\* --------------------------------------------------- library, hook symbols

LowerCase ==
    <<"a", "b", "c", "d", "e", "f", "g", "h", "i", "j", "k", "l", "m",
      "n", "o", "p", "q", "r", "s", "t", "u", "v", "w", "x", "y", "z">>
UpperCase ==
    <<"A", "B", "C", "D", "E", "F", "G", "H", "I", "J", "K", "L", "M",
      "N", "O", "P", "Q", "R", "S", "T", "U", "V", "W", "X", "Y", "Z">>

\* str::to_uppercase
to_uppercase(s) ==
    [i \in 1..Len(s) |->
        IF \E k \in 1..26 : LowerCase[k] = s[i]
        THEN UpperCase[CHOOSE k \in 1..26 : LowerCase[k] = s[i]]
        ELSE s[i]]

\* format!("BP3D_OS_MODULE_{}", name.to_uppercase())
mod_const_name(name) ==
    SubSeq(MOD_HEADER, 1, 14) \o <<"_">> \o to_uppercase(name)

\* format!("bp3d_os_module_{}_<hook>", name)
hook_symbol(name, hook) ==
    <<"b", "p", "3", "d", "_", "o", "s", "_", "m", "o", "d", "u", "l", "e", "_">>
    \o name \o <<"_">> \o hook

H_init == <<"i", "n", "i", "t">>
H_uninit == <<"u", "n", "i", "n", "i", "t">>
H_open == <<"o", "p", "e", "n">>
H_close == <<"c", "l", "o", "s", "e">>
H_debug == <<"i", "n", "i", "t", "_", "b", "p", "3", "d", "_", "d", "e", "b", "u", "g">>

\* Library::load_symbol: whether the library exports the symbol
load_symbol(lib, symbol) == symbol \in DOMAIN lib.symbols

\* Module::new; the ref_count of a new module is 1
ModuleNew(lib, metadata) ==
    [id |-> 0, ref_count |-> 1, lib |-> lib, metadata |-> metadata]

\* Module::get_metadata_key(key).unwrap_or(default)
metadata_key_or(module, key, default) ==
    IF key \in DOMAIN module.metadata THEN module.metadata[key] ELSE default

\* ------------------------------------------- loader/core.rs: Data, hooks

\* static MODULE_LOADER of one binary image: unset
DataNull == [is_set |-> FALSE, is_root |-> FALSE]

\* Data::install_existing
install_existing(data) ==
    IF ~data.is_set THEN [is_set |-> TRUE, is_root |-> FALSE] ELSE data

\* the part of the program that hooks act on: env.statics the MODULE_LOADER
\* static of each image, env.hooks the hooks called so far on each module
\* name, env.status "running", "blocked" (a thread waits for the loader's
\* mutex it holds itself) or "aborted" (a panic left an extern "C" hook)

\* what Mutex::lock does in the thread that holds the lock: it never
\* returns, by deadlock or by panic
Relock == {"blocked", "aborted"}

\* ModuleLoader::install_from_existing in an image; there is one loader, so
\* the assert_eq on the pointer passes
install_from_existing(env, image) ==
    [env EXCEPT !.statics[image] = install_existing(@)]

\* ModuleLoader::uninstall in an image, called from a hook, that is while
\* the caller holds the loader's lock: a root image locks the loader again
uninstall_in_hook(env, image, relock) ==
    IF ~env.statics[image].is_set THEN [env EXCEPT !.status = "aborted"]
    ELSE IF ~env.statics[image].is_root
    THEN [env EXCEPT !.statics[image] = DataNull]
    ELSE [env EXCEPT !.status = relock]

\* hooks that only return
call_hook_returns(env, lib, name, hook, relock) ==
    [env EXCEPT !.hooks[name] = Append(@, hook)]

\* sym.call() of hook of module name in library lib: what the symbol's code
\* does (the generated init and uninit of build/src/lib.rs, user code else)
call_hook(env, lib, name, hook, relock) ==
    LET code == lib.symbols[hook_symbol(name, hook)]
        logged == [env EXCEPT !.hooks[name] = Append(@, hook)]
    IN  IF code = "install_from_existing"
        THEN install_from_existing(logged, lib.image)
        ELSE IF code = "uninstall"
        THEN uninstall_in_hook(logged, lib.image, relock)
        ELSE IF code = "lock"
        THEN [logged EXCEPT !.status = relock]
        ELSE logged

\* an open that calls no hook
module_open_silent(name0, module, env) == [res |-> Ok, env |-> env]

\* module_open: [res, env]
module_open(name0, module, env) ==
    LET name == metadata_key_or(module, K_NAME, name0)
        has(hook) == load_symbol(module.lib, hook_symbol(name, hook))
        call(e, hook) == call_hook(e, module.lib, name, hook, "blocked")
        open(e) == IF has(H_open) THEN call(e, H_open) ELSE e
    IN  IF K_TYPE \notin DOMAIN module.metadata
        THEN [res |-> ErrKind("InvalidMetadata"), env |-> env]
        ELSE IF module.metadata[K_TYPE] = T_RUST
        THEN LET e1 == IF has(H_debug) THEN call(env, H_debug) ELSE env IN
             IF ~has(H_init)
             THEN [res |-> ErrKind("MissingModuleInitForRust"), env |-> e1]
             ELSE [res |-> Ok, env |-> open(call(e1, H_init))]
        ELSE [res |-> Ok, env |-> open(env)]

\* module_close: [res, env]; when env.status is not "running" the call
\* never returns
module_close(name0, builtin, module, env, relock) ==
    LET name == metadata_key_or(module, K_NAME, name0)
        has(hook) == load_symbol(module.lib, hook_symbol(name, hook))
        call(e, hook) == call_hook(e, module.lib, name, hook, relock)
        close(e) == IF has(H_close) THEN call(e, H_close) ELSE e
    IN  IF builtin THEN [res |-> Ok, env |-> close(env)]
        ELSE IF K_TYPE \notin DOMAIN module.metadata
        THEN [res |-> ErrKind("InvalidMetadata"), env |-> env]
        ELSE IF module.metadata[K_TYPE] = T_RUST
        THEN IF ~has(H_uninit)
             THEN [res |-> ErrKind("MissingModuleInitForRust"), env |-> env]
             ELSE LET e1 == call(env, H_uninit) IN
                  IF e1.status # "running" THEN [res |-> Ok, env |-> e1]
                  ELSE [res |-> Ok, env |-> close(e1)]
        ELSE [res |-> Ok, env |-> close(env)]

\* the outcome of a load that failed before a module existed
load_failed(res, dm, env) ==
    [res |-> res, module |-> ModuleNew(<<>>, <<>>), deps |-> dm, env |-> env]

\* the module of a load with outcome mo of module_open
opened_module(module, dm, mo) ==
    [res |-> mo.res, module |-> module, deps |-> dm, env |-> mo.env]

\* a load that opens the library and runs the hooks whatever check_metadata
\* returned
open_unchecked(lib, name, metadata, cm, dm, env) ==
    IF ~lib.loadable THEN load_failed(ErrKind("Io"), cm.deps, env)
    ELSE IF ~cm.res.ok
    THEN load_failed(cm.res, dm, module_open(name, ModuleNew(lib, metadata), env).env)
    ELSE opened_module(ModuleNew(lib, metadata), cm.deps,
                       module_open(name, ModuleNew(lib, metadata), env))

\* the tail of load_lib and load_by_symbol after check_metadata returned cm:
\* the library is loaded, then Module::new and module_open
open_checked(lib, name, metadata, cm, dm, env) ==
    IF ~cm.res.ok THEN load_failed(cm.res, dm, env)
    ELSE IF ~lib.loadable THEN load_failed(ErrKind("Io"), cm.deps, env)
    ELSE opened_module(ModuleNew(lib, metadata), cm.deps,
                       module_open(name, ModuleNew(lib, metadata), env))

\* the tail of load_lib and load_by_symbol: check_metadata, Module::new,
\* module_open; [res, module, deps, env]
negotiate_and_open(lib, name, parsed, dm, env) ==
    IF ~parsed.res.ok THEN load_failed(parsed.res, dm, env)
    ELSE open_checked(lib, name, parsed.metadata,
                      check_metadata(parsed.metadata, dm), dm, env)

\* load_lib: the file's metadata, then OsLibrary::load of the file
load_lib(dm, name, file, env) ==
    negotiate_and_open(file.lib, name, load_metadata(file.bytes), dm, env)

\* load_by_symbol: NotFound without the descriptor symbol
load_by_symbol(lib, name, dm, env) ==
    IF load_symbol(lib, mod_const_name(name))
    THEN negotiate_and_open(
            lib, name,
            parse_metadata(descriptor_bytes(lib.symbols[mod_const_name(name)])),
            dm, env)
    ELSE load_failed(Err("NotFound", name, <<>>, <<>>), dm, env)

\* --------------------------------------- loader/core.rs: registry pieces

\* HashMap::remove
Remove(map, key) == [k \in (DOMAIN map) \ {key} |-> map[k]]

\* a repeat load that leaves the counter alone
keep_ref_count(module) == module

\* v.ref_count += 1 of a repeat load
increment_ref_count(module) == [module EXCEPT !.ref_count = @ + 1]

\* an unload that leaves the counter alone
forget_ref_count(module) == module

\* module.ref_count -= 1 of an unload
decrement_ref_count(module) == [module EXCEPT !.ref_count = @ - 1]

\* ModuleLoader::_add_public_dependency on the DepsMap
add_public_dependency(dm, name, version, features) ==
    LET negative_features == SelectSeq(features, LAMBDA f : StartsWith(f, <<"-">>))
        kept == SelectSeq(features, LAMBDA f : ~StartsWith(f, <<"-">>))
    IN  add_dep(dm, ReplaceChar(name, "-", "_"),
                Dependency(version,
                           [i \in 1..Len(kept) |->
                               IF kept[i] # <<"*">> THEN name \o kept[i] ELSE <<"*">>],
                           negative_features))

\* OS_EXT on unix other than apple
OS_EXT == <<"s", "o">>

\* Path::join
path_join(dir, file) == dir \o <<"/">> \o file

\* a search that finds no file
find_library_nowhere(files, search_paths, i, name) ==
    [some |-> FALSE, path |-> <<>>]

\* the loop of _load over the search paths from the i-th on: the first path
\* under which <name>.<ext> or else lib<name>.<ext> exists
RECURSIVE find_library(_, _, _, _)
find_library(files, search_paths, i, name) ==
    IF i > Len(search_paths) THEN [some |-> FALSE, path |-> <<>>]
    ELSE LET search == path_join(search_paths[i], name \o <<".">> \o OS_EXT)
             search2 == path_join(search_paths[i],
                                  <<"l", "i", "b">> \o name \o <<".">> \o OS_EXT)
         IN  IF search \in DOMAIN files THEN [some |-> TRUE, path |-> search]
             ELSE IF search2 \in DOMAIN files THEN [some |-> TRUE, path |-> search2]
             ELSE find_library(files, search_paths, i + 1, name)

\* the loop of _load_builtin over the builtins from the i-th on: the first
\* whose name is the requested one
RECURSIVE find_builtin(_, _, _)
find_builtin(builtins, i, name) ==
    IF i > Len(builtins) THEN [some |-> FALSE, lib |-> <<>>]
    ELSE IF builtins[i].name = name THEN [some |-> TRUE, lib |-> builtins[i]]
    ELSE find_builtin(builtins, i + 1, name)

\* ------------------------------------------------ the libraries of a host

\* dependency (crate) names, module names, versions and feature tokens
N_a == <<"a">>
N_b == <<"b">>
N_m == <<"m">>
N_n == <<"n">>
N_p == <<"p">>
V100 == <<"1", ".", "0", ".", "0">>
V101 == <<"1", ".", "0", ".", "1">>
V200 == <<"2", ".", "0", ".", "0">>
F_abc == <<"a", "/", "a", "b", "c">>
F_def == <<"a", "/", "d", "e", "f">>
STAR == <<"*">>

N_c == <<"c">>
N_q == <<"q">>
N_d == <<"d">>
N_r == <<"r">>
N_x == <<"x">>
D1 == <<"d", "1">>

\* the symbols a module built by ModuleMain exports: its descriptor, the
\* generated init and uninit
ManagedSymbols(name, data) ==
    (mod_const_name(name) :> data)
    @@ (hook_symbol(name, H_init) :> "install_from_existing")
    @@ (hook_symbol(name, H_uninit) :> "uninstall")

\* open and close hooks written by the module's author
UserHooks(name) ==
    (hook_symbol(name, H_open) :> "user") @@ (hook_symbol(name, H_close) :> "user")

\* m: a managed module in a shared object of its own
DescriptorM ==
    descriptor(N_m, V100, RUSTC_VERSION, format_deps(<<<<N_a, V100>>>>),
               format_features(<<F_abc>>))
FileM ==
    [bytes |-> <<"E", "L", "F", "B", NUL>> \o DescriptorM,
     lib |-> [kind |-> "os", image |-> "libm", loadable |-> TRUE,
              symbols |-> ManagedSymbols(N_m, DescriptorM) @@ UserHooks(N_m)]]

\* c: a module of TYPE C with open and close hooks
FileC ==
    [bytes |-> <<NUL>> \o MOD_HEADER \o K_TYPE \o <<"=", "C", "|">>
               \o K_NAME \o <<"=">> \o N_c \o <<NUL>>,
     lib |-> [kind |-> "os", image |-> "c", loadable |-> TRUE,
              symbols |-> UserHooks(N_c)]]

\* d: a managed module built both as a shared object and into the host
DescriptorD == descriptor(N_d, V100, RUSTC_VERSION, <<>>, <<>>)
FileD ==
    [bytes |-> <<"E", "L", "F", NUL>> \o DescriptorD,
     lib |-> [kind |-> "os", image |-> "libd", loadable |-> TRUE,
              symbols |-> ManagedSymbols(N_d, DescriptorD) @@ UserHooks(N_d)]]

\* r: a managed module whose open hook locks the loader
DescriptorR == descriptor(N_r, V100, RUSTC_VERSION, <<>>, <<>>)
FileR ==
    [bytes |-> <<"E", "L", "F", NUL>> \o DescriptorR,
     lib |-> [kind |-> "os", image |-> "libr", loadable |-> TRUE,
              symbols |-> ManagedSymbols(N_r, DescriptorR)
                          @@ (hook_symbol(N_r, H_open) :> "lock")]]

\* u_v: a module of TYPE C whose name holds an underscore
N_uv == <<"u", "_", "v">>
FileU ==
    [bytes |-> <<NUL>> \o MOD_HEADER \o K_TYPE \o <<"=", "C", "|">>
               \o K_NAME \o <<"=">> \o N_uv \o <<NUL>>,
     lib |-> [kind |-> "os", image |-> "libu", loadable |-> TRUE,
              symbols |-> UserHooks(N_uv)]]

\* k: a module of TYPE RUST written by hand, with an init hook and without
\* an uninit hook
N_k == <<"k">>
DescriptorK == descriptor(N_k, V100, RUSTC_VERSION, <<>>, <<>>)
FileK ==
    [bytes |-> <<"E", "L", "F", NUL>> \o DescriptorK,
     lib |-> [kind |-> "os", image |-> "libk", loadable |-> TRUE,
              symbols |-> (mod_const_name(N_k) :> DescriptorK)
                          @@ (hook_symbol(N_k, H_init) :> "user")
                          @@ UserHooks(N_k)]]

\* the files of the search directories
Files ==
    (path_join(D1, <<"l", "i", "b", "m", ".", "s", "o">>) :> FileM)
    @@ (path_join(D1, <<"k", ".", "s", "o">>) :> FileK)
    @@ (path_join(D1, <<"u", "_", "v", ".", "s", "o">>) :> FileU)
    @@ (path_join(D1, <<"c", ".", "s", "o">>) :> FileC)
    @@ (path_join(D1, <<"d", ".", "s", "o">>) :> FileD)
    @@ (path_join(D1, <<"r", ".", "s", "o">>) :> FileR)

\* OsLibrary::open_self: the host binary, which links the managed module n
\* and its own copy of the managed module d
SelfLibrary ==
    [kind |-> "os", image |-> "host", loadable |-> TRUE,
     symbols |-> ManagedSymbols(N_n, descriptor(N_n, V100, RUSTC_VERSION, <<>>, <<>>))
                 @@ ManagedSymbols(N_d, DescriptorD) @@ UserHooks(N_d)]

\* the debug engine hook a module built with add_bp3d_debug exports
DebugHook(name) == hook_symbol(name, H_debug) :> "user"

\* the VirtualLibrary of the statically linked managed module p, and of q,
\* a module with a descriptor of TYPE RUST that exports no init
Builtins ==
    <<[kind |-> "virtual", name |-> N_p, image |-> "host", loadable |-> TRUE,
       symbols |-> ManagedSymbols(N_p, descriptor(N_p, V100, RUSTC_VERSION, <<>>, <<>>))
                   @@ DebugHook(N_p) @@ UserHooks(N_p)],
      [kind |-> "virtual", name |-> N_q, image |-> "host", loadable |-> TRUE,
       symbols |-> (mod_const_name(N_q) :>
                        descriptor(N_q, V100, RUSTC_VERSION, <<>>, <<>>))
                   @@ DebugHook(N_q) @@ UserHooks(N_q)]>>

\* the VirtualLibrary of the statically linked managed module w_z
N_wz == <<"w", "_", "z">>
UnderscoreBuiltins ==
    <<[kind |-> "virtual", name |-> N_wz, image |-> "host", loadable |-> TRUE,
       symbols |-> ManagedSymbols(N_wz, descriptor(N_wz, V100, RUSTC_VERSION, <<>>, <<>>))
                   @@ UserHooks(N_wz)]>>

\* the names a caller asks for
LoaderNames == {N_m, N_n, N_p, N_c, N_x}

\* the names of the resolution checks: d, the builtins p and q, and n
ResolveNames == {N_d, N_p, N_q, N_n}

\* the modules that the threads load: d, and r whose open hook locks
ThreadNames == {N_d, N_r}

\* every name of a module
Names == LoaderNames \cup ResolveNames \cup ThreadNames \cup {N_uv, N_wz, N_k}

\* the names of u_v and w_z as a caller writes them, with a hyphen
HyphenNames == {<<"u", "-", "v">>, <<"w", "-", "z">>}

\* env!("CARGO_PKG_NAME"), env!("CARGO_PKG_VERSION") of the loader's crate
PKG_NAME == <<"b", "p", "3", "d", "-", "o", "s">>
PKG_VERSION == V200
DEBUG_NAME == <<"b", "p", "3", "d", "-", "d", "e", "b", "u", "g">>

\* ------------------------------------------------------------- inputs

\* the versions a candidate declares for each dependency name
DepVersions(name) == IF name = N_a THEN {V100, V200} ELSE {V100, V101}

\* the dependency lists over the names of order, from its entry i on: each
\* name absent or present once with one of its versions
RECURSIVE DepLists(_, _)
DepLists(order, i) ==
    IF i > Len(order) THEN {<<>>}
    ELSE LET rest == DepLists(order, i + 1) IN
         rest \cup {<<<<order[i], v>>>> \o r : v \in DepVersions(order[i]), r \in rest}

\* the metadata map of a RUST candidate built by ModuleMain from its
\* dependency list and feature list
Cand(name, version, dep_list, feature_list) ==
    rust_metadata(name, version, RUSTC_VERSION, format_deps(dep_list),
                  format_features(feature_list))

\* candidates of the master checks: one module over the crates a and b
MasterFeatureLists == {<<>>, <<F_abc>>, <<F_def>>, <<F_abc, F_def>>}

\* <<name, version, dependency list, feature list>> of each
MasterInputs ==
    {N_m} \X {V100} \X DepLists(<<N_a, N_b>>, 1) \X MasterFeatureLists

MasterCandidates == {Cand(x[1], x[2], x[3], x[4]) : x \in MasterInputs}

\* the master dependencies the host registers for the master checks
MasterDeps(name) ==
    IF name = N_a
    THEN {Dependency(x[1], x[2], x[3]) :
            x \in {y \in {V100} \X {<<>>, <<STAR>>, <<F_abc>>, <<F_abc, STAR>>,
                                    <<F_abc, F_def>>} \X {<<>>, <<F_def>>} :
                    Range(y[3]) \cap Range(y[2]) = {}}}
    ELSE {Dependency(V100, <<>>, <<>>)}

\* candidates of the inter-module checks: m and p over the crate a, n over
\* the crate a and the module m
RelationFeatureLists == {<<>>, <<F_abc>>}

\* <<name, version, dependency list, feature list>> of each
RelationInputs ==
    ({N_m, N_p} \X {V100} \X DepLists(<<N_a>>, 1) \X RelationFeatureLists)
    \cup ({N_n} \X {V100} \X DepLists(<<N_a, N_m>>, 1) \X RelationFeatureLists)

\* descriptors check_metadata refuses or passes without negotiating: a DEPS
\* entry without "=", another toolchain, no FEATURES key, a module that is
\* not of TYPE RUST
OddCandidates ==
    {rust_metadata(N_p, V100, RUSTC_VERSION, <<"a", "=", "1", ",", "m">>, <<>>),
     rust_metadata(N_p, V100, <<"1", ".", "8", "4">>, <<>>, <<>>),
     [k \in {K_TYPE, K_NAME, K_VERSION, K_RUSTC, K_DEPS} |->
        rust_metadata(N_p, V100, RUSTC_VERSION, <<>>, <<>>)[k]],
     [k \in {K_TYPE, K_NAME, K_VERSION} |->
        IF k = K_TYPE THEN <<"C">> ELSE IF k = K_NAME THEN N_p ELSE V100]}

RelationCandidates ==
    {Cand(x[1], x[2], x[3], x[4]) : x \in RelationInputs} \cup OddCandidates

\* the master dependency of the inter-module checks
RelationMaster == Dependency(V100, <<F_abc, STAR>>, <<>>)

\* -------------------------------------------------------------- state

\* the most successful loads in one run
MaxLoads == 3
\* the most search paths
MaxPaths == 1
\* the calls of the loader that one thread makes
MaxCalls == 2
\* the loads of the builtin q, which is refused after its debug hook ran
MaxRefused == 2

VARIABLES
    paths,              \* ModuleLoader.paths
    modules,            \* ModuleLoader.modules: id -> Module over an OsLibrary
    builtin_modules,    \* ModuleLoader.builtin_modules: id -> Module
    deps,               \* ModuleLoader.deps: the DepsMap
    builtins,           \* ModuleLoader.builtins
    module_name_to_id,  \* ModuleLoader.module_name_to_id
    last_module_id,     \* ModuleLoader.last_module_id
    statics,            \* the MODULE_LOADER static of each binary image
    hooks,              \* the hooks called so far, per module name
    status,             \* "running", "blocked" or "aborted"
    loads,              \* per name: the loads that returned Ok
    unloads,            \* per name: the unloads of the name while registered
    opened,             \* per name: the registrations (first loads)
    closed,             \* per name: the calls of module_close
    result,             \* the Result of the last call
    holder,             \* the thread that holds the loader's mutex, 0 if none
    threads,            \* per thread: where it is in its call of the loader
    scan                \* a call of load_metadata: the file, the buffer, v

registry_vars ==
    <<paths, modules, builtin_modules, builtins, module_name_to_id, last_module_id>>
hook_vars == <<statics, hooks, status>>
count_vars == <<loads, unloads, opened, closed>>
thread_vars == <<holder, threads>>
vars == <<registry_vars, deps, hook_vars, count_vars, result, thread_vars, scan>>

\* the threads of the process that call the loader
Threads == {1, 2}

\* a thread that made no call yet
ThreadIdle ==
    [pc |-> "idle", op |-> "none", name |-> <<>>, found |-> FALSE,
     kind |-> "none", id |-> -1, calls |-> 0, contended |-> FALSE]

NoResult == [op |-> "none", kind |-> "none", name |-> <<>>, id |-> -1]

\* no call of load_metadata is under way
NoScan == [pc |-> "none"]

\* the Result of call op on name: its kind, the name an error carries, the
\* id an Ok carries
ResultOf(op, res, id) ==
    [op |-> op, kind |-> res.kind, name |-> res.name, id |-> IF res.ok THEN id ELSE -1]

\* the state after ModuleLoader::install(Builtins) in the host
Init ==
    /\ paths = <<>>
    /\ modules = <<>>
    /\ builtin_modules = <<>>
    /\ builtins = Builtins
    /\ deps = add_public_dependency(
                add_public_dependency(DepsMapNew, PKG_NAME, PKG_VERSION, <<STAR>>),
                DEBUG_NAME, V100, <<STAR>>)
    /\ module_name_to_id = <<>>
    /\ last_module_id = 0
    /\ statics = [image \in {"host", "libm", "libd", "libr", "c"} |->
                    IF image = "host" THEN [is_set |-> TRUE, is_root |-> TRUE]
                    ELSE DataNull]
    /\ hooks = [n \in Names |-> <<>>]
    /\ status = "running"
    /\ loads = [n \in Names |-> 0]
    /\ unloads = [n \in Names |-> 0]
    /\ opened = [n \in Names |-> 0]
    /\ closed = [n \in Names |-> 0]
    /\ result = NoResult
    /\ holder = 0
    /\ threads = [t \in Threads |-> ThreadIdle]
    /\ scan = NoScan

\* a DepsMap on its own, as the tests of util.rs build it
InitDeps ==
    /\ paths = <<>>
    /\ modules = <<>>
    /\ builtin_modules = <<>>
    /\ builtins = <<>>
    /\ deps = DepsMapNew
    /\ module_name_to_id = <<>>
    /\ last_module_id = 0
    /\ statics = [image \in {"host"} |-> DataNull]
    /\ hooks = <<>>
    /\ status = "running"
    /\ loads = <<>>
    /\ unloads = <<>>
    /\ opened = <<>>
    /\ closed = <<>>
    /\ result = NoResult
    /\ holder = 0
    /\ threads = [t \in Threads |-> ThreadIdle]
    /\ scan = NoScan

\* DepsMap::add_dep
AddDep(name, dep) ==
    /\ deps' = add_dep(deps, name, dep)
    /\ result' = [NoResult EXCEPT !.op = "add_dep", !.kind = "Ok"]
    /\ UNCHANGED <<registry_vars, hook_vars, count_vars, thread_vars, scan>>

\* check_metadata(metadata, &mut deps) for a module whose name the table does
\* not hold yet
CheckMetadata(metadata) ==
    LET r == check_metadata(metadata, deps) IN
    /\ metadata[K_NAME] \notin DOMAIN deps.module_version
    /\ deps' = r.deps
    /\ result' = ResultOf("check_metadata", r.res, -1)
    /\ UNCHANGED <<registry_vars, hook_vars, count_vars, thread_vars, scan>>

NextMaster ==
    \/ \E name \in {N_a, N_b} : \E dep \in MasterDeps(name) : AddDep(name, dep)
    \/ \E metadata \in MasterCandidates : CheckMetadata(metadata)

SpecMaster == InitDeps /\ [][NextMaster]_vars

NextDeps ==
    \/ AddDep(N_a, RelationMaster)
    \/ \E metadata \in RelationCandidates : CheckMetadata(metadata)

SpecDeps == InitDeps /\ [][NextDeps]_vars

\* ------------------------------------------ properties of the negotiation

\* the features a candidate's feature list declares for dependency d: its
\* tokens of the form d/feature
DeclaredFeatures(feature_list, d) ==
    {t \in Range(feature_list) : StartsWith(t, d \o <<"/">>)}

\* the feature list without token f
Without(feature_list, f) == SelectSeq(feature_list, LAMBDA t : t # f)

\* the outcome of negotiating the candidate of input x in the current table
Negotiate(x) == check_metadata(Cand(x[1], x[2], x[3], x[4]), deps)

\* the outcome is IncompatibleDep naming d
IsIncompatibleDep(res, d) == res.kind = "IncompatibleDep" /\ res.name = d

\* the outcome is IncompatibleFeatureSet naming d
IsIncompatibleFeatureSet(res, d) ==
    res.kind = "IncompatibleFeatureSet" /\ res.name = d

\* C3, as stated: whenever a candidate declares dependency d with a version
\* other than the master's, negotiation fails with IncompatibleDep naming d,
\* whatever the features are, and the candidate is not committed.
C3_NamesEveryMismatch ==
    \A x \in MasterInputs : \A i \in 1..Len(x[3]) :
        LET d == x[3][i][1]
            v == x[3][i][2]
            r == Negotiate(x)
        IN  (d \in DOMAIN deps.master /\ deps.master[d].version # v)
            => (IsIncompatibleDep(r.res, d) /\ r.deps = deps)

\* C3, amended: a candidate declaring d with a version that is not string-equal
\* to the master's is never accepted and never committed, whatever its
\* features; the checks run in DEPS order and report the first failure, so the
\* error is IncompatibleDep naming d (expected the master's version, actual the
\* candidate's) when no earlier DEPS entry is in the master table, and
\* otherwise names d or an earlier entry that the master table holds.
C3_VersionEquality ==
    \A x \in MasterInputs : \A i \in 1..Len(x[3]) :
        LET d == x[3][i][1]
            v == x[3][i][2]
            r == Negotiate(x)
        IN  (d \in DOMAIN deps.master /\ deps.master[d].version # v)
            => /\ ~r.res.ok
               /\ r.deps = deps
               /\ \E j \in 1..i : /\ r.res.name = x[3][j][1]
                                  /\ x[3][j][1] \in DOMAIN deps.master
               /\ (\A j \in 1..(i - 1) : x[3][j][1] \notin DOMAIN deps.master)
                  => r.res = Err("IncompatibleDep", d, deps.master[d].version, v)

\* a candidate was refused for the version of b, a patch level away from the
\* master's, and nothing is committed
C3_Witness ==
    /\ result.op = "check_metadata"
    /\ IsIncompatibleDep(result, N_b)
    /\ N_b \in DOMAIN deps.master
    /\ deps.module_version = <<>>

\* C4, as stated: a master dependency whose feature list is ["*"], without
\* negative features, accepts a version-matching candidate whatever features
\* the candidate declares for it, the empty FEATURES value included.
C4_WildcardAcceptsAny ==
    \A x \in MasterInputs : \A d \in DOMAIN deps.master :
        (/\ deps.master[d].features = <<STAR>>
         /\ deps.master[d].negative_features = <<>>
         /\ x[3] = <<<<d, deps.master[d].version>>>>)
        => Negotiate(x).res.ok

\* C5, as stated: a candidate (version-matching, d its only dependency) that
\* declares a negative feature f of the master's entry for d is refused with
\* IncompatibleFeatureSet(d), wildcard or not; the same candidate without f is
\* accepted when what it still declares satisfies the master's feature list.
C5_NegativeFeature ==
    \A x \in MasterInputs : \A d \in DOMAIN deps.master :
        \A f \in Range(deps.master[d].negative_features) :
            LET m == deps.master[d]
                rest == Without(x[4], f)
                explicit == Range(m.features) \ {STAR}
                satisfied ==
                    IF STAR \in Range(m.features)
                    THEN explicit \subseteq DeclaredFeatures(rest, d)
                    ELSE explicit = DeclaredFeatures(rest, d)
            IN  (x[3] = <<<<d, m.version>>>> /\ f \in DeclaredFeatures(x[4], d))
                => /\ IsIncompatibleFeatureSet(Negotiate(x).res, d)
                   /\ satisfied => Negotiate(<<x[1], x[2], x[3], rest>>).res.ok

\* the reference tables a candidate is compared with: the master table and
\* the recorded table of each accepted module
References ==
    {deps.master} \cup {deps.deps_by_module[n] : n \in DOMAIN deps.deps_by_module}

\* C6: without a wildcard the feature check for dependency d is set equality:
\* against a reference entry for d of the same version and without "*", the
\* check passes iff the features the candidate declares for d are exactly the
\* reference's features, and every refusal is IncompatibleFeatureSet(d).
C6_SetEquality ==
    \A T \in References : \A x \in MasterInputs : \A i \in 1..Len(x[3]) :
        LET d == x[3][i][1]
            r == check_deps(format_deps(<<x[3][i]>>), format_features(x[4]), T)
        IN  (/\ d \in DOMAIN T
             /\ T[d].version = x[3][i][2]
             /\ STAR \notin Range(T[d].features))
            => /\ r.ok <=> DeclaredFeatures(x[4], d) = Range(T[d].features)
               /\ ~r.ok => IsIncompatibleFeatureSet(r, d)

\* a candidate was refused by a master entry without wildcard and without
\* negative features that lists features: it missed one or had one extra
C6_Witness ==
    /\ result.op = "check_metadata"
    /\ IsIncompatibleFeatureSet(result, N_a)
    /\ N_a \in DOMAIN deps.master
    /\ deps.master[N_a].features = <<F_abc, F_def>>
    /\ deps.master[N_a].negative_features = <<>>

\* the accepted modules that list name among their dependencies
DependOn(name) ==
    {n \in DOMAIN deps.deps_by_module : name \in DOMAIN deps.deps_by_module[n]}

\* the candidate of input x agrees with the recorded table of accepted module
\* n on every dependency they share: same version, same feature set
AgreesWith(x, n) ==
    \A i \in 1..Len(x[3]) :
        LET d == x[3][i][1] IN
        d \in DOMAIN deps.deps_by_module[n]
        => /\ x[3][i][2] = deps.deps_by_module[n][d].version
           /\ DeclaredFeatures(x[4], d) = Range(deps.deps_by_module[n][d].features)

C8_DirectDependency ==
    \A x \in RelationInputs : \A i \in 1..Len(x[3]) :
        LET n == x[3][i][1]
            r == Negotiate(x)
        IN  n \in DOMAIN deps.module_version
            => /\ r.res.ok <=> r.deps # deps
               /\ r.res.ok => /\ x[3][i][2] = deps.module_version[n]
                              /\ AgreesWith(x, n)

\* m, which lists a, was accepted first, and then n, which lists m and a
C8_Witness ==
    /\ result.op = "check_metadata" /\ result.kind = "Ok"
    /\ N_a \in DOMAIN deps.module_by_dep
    /\ deps.module_by_dep[N_a] = <<N_m, N_n>>
    /\ N_m \in DOMAIN deps.deps_by_module[N_n]

\* the scenario: the master table, the inputs m, n and p, and the tables
\* that m and n are recorded with
ScenarioMaster == N_a :> RelationMaster
ScenarioM == <<N_m, V100, <<<<N_a, V100>>>>, <<F_abc>>>>
ScenarioN(feature_list) == <<N_n, V100, <<<<N_a, V100>>, <<N_m, V100>>>>, feature_list>>
ScenarioP(feature_list) == <<N_p, V100, <<<<N_a, V200>>>>, feature_list>>
TableM == N_a :> Dependency(V100, <<F_abc>>, <<>>)
TableN == (N_a :> Dependency(V100, <<F_abc>>, <<>>)) @@ (N_m :> Dependency(V100, <<>>, <<>>))

\* the master dependency is registered and no module is accepted
AtStart == deps.master = ScenarioMaster /\ deps.module_version = <<>>

\* m, and nothing else, is committed
AfterM ==
    /\ deps.master = ScenarioMaster
    /\ deps.module_version = (N_m :> V100)
    /\ deps.deps_by_module = (N_m :> TableM)

\* m and then n, and nothing else, are committed
AfterN ==
    /\ deps.master = ScenarioMaster
    /\ deps.module_version = (N_m :> V100) @@ (N_n :> V100)
    /\ deps.deps_by_module = (N_m :> TableM) @@ (N_n :> TableN)
    /\ deps.module_by_dep = (N_a :> <<N_m, N_n>>) @@ (N_m :> <<N_n>>)

\* the first step of the scenario: m is accepted and committed
ScenarioStepM ==
    AtStart => LET r == Negotiate(ScenarioM) IN
               /\ r.res.ok
               /\ r.deps.module_version = (N_m :> V100)
               /\ r.deps.deps_by_module = (N_m :> TableM)

\* the last step of the scenario: p is refused for a, whatever its features,
\* and the table keeps m and n and nothing of p
ScenarioStepP ==
    AfterN => \A f \in RelationFeatureLists :
                LET r == Negotiate(ScenarioP(f)) IN
                /\ r.res = Err("IncompatibleDep", N_a, V100, V200)
                /\ r.deps = deps

\* C9, as stated: m (DEPS a=1.0.0, FEATURES a/abc) is accepted; then n, given
\* with DEPS a=1.0.0,m=1.0.0 and no features, is accepted; then p (DEPS
\* a=2.0.0) is refused with IncompatibleDep naming a and is not committed.
C9_ScenarioAsStated ==
    /\ ScenarioStepM
    /\ AfterM => Negotiate(ScenarioN(<<>>)).res.ok
    /\ ScenarioStepP

\* C9, amended: m (DEPS a=1.0.0, FEATURES a/abc) is accepted; then n with DEPS
\* a=1.0.0,m=1.0.0 and the same FEATURES a/abc is accepted; then p (DEPS
\* a=2.0.0) is refused with IncompatibleDep naming a, p is not committed and
\* m and n stay committed.
C9_Scenario ==
    /\ ScenarioStepM
    /\ AfterM => LET r == Negotiate(ScenarioN(<<F_abc>>)) IN
                 /\ r.res.ok
                 /\ r.deps.module_version = (N_m :> V100) @@ (N_n :> V100)
                 /\ r.deps.deps_by_module = (N_m :> TableM) @@ (N_n :> TableN)
    /\ ScenarioStepP

\* m and n are committed as in the scenario and the last candidate was
\* refused for the version of a
C9_Witness ==
    /\ AfterN
    /\ result.op = "check_metadata"
    /\ IsIncompatibleDep(result, N_a)

\* C10: the DepsMap is a commit log: a negotiation that returns an error
\* leaves deps_by_module, module_version and module_by_dep as they were, and
\* a negotiation that changes any of them has passed every check and has
\* entered the candidate in deps_by_module and module_version, and in
\* module_by_dep under each dependency it declares.
C10_CommitLog ==
    \A metadata \in RelationCandidates :
        LET r == check_metadata(metadata, deps)
            name == metadata[K_NAME]
        IN  /\ ~r.res.ok => r.deps = deps
            /\ r.deps # deps
               => /\ r.res.ok
                  /\ name \in DOMAIN r.deps.deps_by_module
                  /\ name \in DOMAIN r.deps.module_version
                  /\ \A d \in DOMAIN r.deps.deps_by_module[name] :
                        /\ d \in DOMAIN r.deps.module_by_dep
                        /\ name \in Range(r.deps.module_by_dep[d])
                  /\ r.deps.master = deps.master

\* a candidate was refused for its features while m and n were committed
C10_Witness ==
    /\ result.op = "check_metadata"
    /\ result.kind = "IncompatibleFeatureSet"
    /\ DOMAIN deps.module_version = {N_m, N_n}
    /\ DOMAIN deps.deps_by_module = {N_m, N_n}

\* ------------------------------------------------- the loader's operations

\* the ModuleLoader
This ==
    [paths |-> paths, modules |-> modules, builtin_modules |-> builtin_modules,
     deps |-> deps, builtins |-> builtins,
     module_name_to_id |-> module_name_to_id,
     last_module_id |-> last_module_id]

Env == [statics |-> statics, hooks |-> hooks, status |-> status]

\* what a registry call leaves: its Result, the id of an Ok, the loader,
\* the hooks' side, and whether the call registered or closed a module
Outcome(res, id, this, env, fresh, last) ==
    [res |-> res, id |-> id, this |-> this, env |-> env, fresh |-> fresh,
     last |-> last]

\* a repeat load that answers without counting the reference
load_registered_uncounted(this, env, name, table) ==
    Outcome(Ok, this.module_name_to_id[name], this, env, FALSE, FALSE)

\* the branch of the load operations for a registered name: the module of
\* table (modules or builtin_modules) gets one more reference, NotFound when
\* the id is in the other table
load_registered(this, env, name, table) ==
    LET id == this.module_name_to_id[name] IN
    IF id \in DOMAIN this[table]
    THEN Outcome(Ok, id, [this EXCEPT ![table][id] = increment_ref_count(@)],
                 env, FALSE, FALSE)
    ELSE Outcome(Err("NotFound", name, <<>>, <<>>), -1, this, env, FALSE, FALSE)

\* a registration that hands out last_module_id without incrementing it
register_reusing(this, name, table, r) ==
    IF r.env.status # "running" \/ ~r.res.ok
    THEN Outcome(r.res, -1, [this EXCEPT !.deps = r.deps], r.env, FALSE, FALSE)
    ELSE Outcome(Ok, this.last_module_id,
                 [this EXCEPT !.deps = r.deps,
                              !.module_name_to_id = Put(@, name, this.last_module_id),
                              ![table] = Put(@, this.last_module_id,
                                             [r.module EXCEPT !.id = this.last_module_id])],
                 r.env, TRUE, FALSE)

\* the end of a first load with outcome r of load_lib or load_by_symbol: on
\* Ok, _next_module_id and the entries under the name and the id
register(this, name, table, r) ==
    IF r.env.status # "running"
    THEN Outcome(r.res, -1, [this EXCEPT !.deps = r.deps], r.env, FALSE, FALSE)
    ELSE IF r.res.ok
    THEN LET id == this.last_module_id IN
         Outcome(Ok, id,
                 [this EXCEPT !.deps = r.deps,
                              !.last_module_id = @ + 1,
                              !.module_name_to_id = Put(@, name, id),
                              ![table] = Put(@, id, [r.module EXCEPT !.id = id])],
                 r.env, TRUE, FALSE)
    ELSE Outcome(r.res, -1, [this EXCEPT !.deps = r.deps], r.env, FALSE, FALSE)

\* ModuleLoader::_load when the name index does not hold the name: the
\* search of the file, load_lib and the registration
load_unregistered(this, env, name) ==
    LET found == find_library(Files, this.paths, 1, name) IN
    IF found.some
    THEN register(this, name, "modules",
                  load_lib(this.deps, name, Files[found.path], env))
    ELSE Outcome(Err("NotFound", name, <<>>, <<>>), -1, this, env, FALSE, FALSE)

\* ModuleLoader::_load
_load(this, env, name0) ==
    LET name == ReplaceChar(name0, "-", "_") IN
    IF name \in DOMAIN this.module_name_to_id
    THEN load_registered(this, env, name, "modules")
    ELSE load_unregistered(this, env, name)

\* ModuleLoader::_load_self
_load_self(this, env, name0) ==
    LET name == ReplaceChar(name0, "-", "_") IN
    IF name \in DOMAIN this.module_name_to_id
    THEN load_registered(this, env, name, "modules")
    ELSE register(this, name, "modules",
                  load_by_symbol(SelfLibrary, name, this.deps, env))

\* map_err of _load_builtin: NotFound of the descriptor is MissingMetadata
missing_metadata(r) ==
    IF r.res.kind = "NotFound"
    THEN [r EXCEPT !.res = ErrKind("MissingMetadata")] ELSE r

\* ModuleLoader::_load_builtin
_load_builtin(this, env, name0) ==
    LET name == ReplaceChar(name0, "-", "_")
        found == find_builtin(this.builtins, 1, name)
    IN  IF name \in DOMAIN this.module_name_to_id
        THEN load_registered(this, env, name, "builtin_modules")
        ELSE IF found.some
        THEN register(this, name, "builtin_modules",
                      missing_metadata(
                          load_by_symbol(found.lib, name, this.deps, env)))
        ELSE Outcome(Err("NotFound", name, <<>>, <<>>), -1, this, env, FALSE, FALSE)

\* an unload that empties the module maps and keeps the name index
unload_maps_only(this, env, name0, relock) ==
    Outcome(Ok, -1, [this EXCEPT !.modules = <<>>, !.builtin_modules = <<>>],
            env, FALSE, FALSE)

\* an unload that closes the module first and keeps it registered when the
\* close protocol fails
unload_close_first(this, env, name0, relock) ==
    LET name == ReplaceChar(name0, "-", "_")
        id == this.module_name_to_id[name]
        table == IF id \in DOMAIN this.modules THEN "modules" ELSE "builtin_modules"
        module == [this[table][id] EXCEPT !.ref_count = @ - 1]
        mc == module_close(name, table = "builtin_modules", module, env, relock)
    IN  IF name \notin DOMAIN this.module_name_to_id
        THEN Outcome(Err("NotFound", name, <<>>, <<>>), -1, this, env, FALSE, FALSE)
        ELSE IF module.ref_count = 0 /\ mc.res.ok
        THEN Outcome(mc.res, -1,
                     [this EXCEPT !.module_name_to_id = Remove(@, name),
                                  ![table] = Remove(@, id)],
                     mc.env, FALSE, TRUE)
        ELSE IF module.ref_count = 0
        THEN Outcome(mc.res, -1, this, mc.env, FALSE, TRUE)
        ELSE Outcome(Ok, -1, [this EXCEPT ![table][id] = module],
                     env, FALSE, FALSE)

\* an unload that answers Ok whatever the name
unload_any(this, env, name0, relock) == Outcome(Ok, -1, this, env, FALSE, FALSE)

\* ModuleLoader::_unload; when the outcome's env.status is not "running" the
\* call never returns
_unload(this, env, name0, relock) ==
    LET name == ReplaceChar(name0, "-", "_")
        id == this.module_name_to_id[name]
        table == IF id \in DOMAIN this.modules THEN "modules" ELSE "builtin_modules"
        module == decrement_ref_count(this[table][id])
        mc == module_close(name, table = "builtin_modules", module, env, relock)
    IN  IF name \notin DOMAIN this.module_name_to_id
        THEN Outcome(Err("NotFound", name, <<>>, <<>>), -1, this, env, FALSE, FALSE)
        ELSE IF module.ref_count = 0
        THEN Outcome(mc.res, -1,
                     [this EXCEPT !.module_name_to_id = Remove(@, name),
                                  ![table] = Remove(@, id)],
                     mc.env, FALSE, TRUE)
        ELSE Outcome(Ok, -1, [this EXCEPT ![table][id] = module],
                     env, FALSE, FALSE)

\* the fields of a loader that does not exist: none was installed, or the
\* installed one was dropped
Released ==
    [paths |-> <<>>, modules |-> <<>>, builtin_modules |-> <<>>,
     deps |-> DepsMapNew, builtins |-> <<>>, module_name_to_id |-> <<>>,
     last_module_id |-> 0]

\* the loader that ModuleLoader::install builds
ModuleLoaderNew(bs) ==
    [Released EXCEPT
        !.builtins = bs,
        !.deps = add_public_dependency(
                    add_public_dependency(DepsMapNew, PKG_NAME, PKG_VERSION, <<STAR>>),
                    DEBUG_NAME, V100, <<STAR>>)]

\* Data::install when the static is unset
DataRoot == [is_set |-> TRUE, is_root |-> TRUE]

\* an install that replaces the installed loader
install_over(this, env, bs) ==
    [this |-> ModuleLoaderNew(bs), env |-> [env EXCEPT !.statics["host"] = DataRoot]]

\* ModuleLoader::install in the host: [this, env]; when Data::install finds
\* the static set the call panics
install(this, env, bs) ==
    IF env.statics["host"].is_set
    THEN [this |-> this, env |-> [env EXCEPT !.status = "aborted"]]
    ELSE [this |-> ModuleLoaderNew(bs),
          env |-> [env EXCEPT !.statics["host"] = DataRoot]]

\* ModuleLoader::install_default
install_default(this, env) == install(this, env, <<>>)

\* ModuleLoader::_lock in the host: the loader that the guard gives access to
_lock(this, env) ==
    IF ~env.statics["host"].is_set THEN install_default(this, env)
    ELSE [this |-> this, env |-> env]

\* a loop that stops after the first name
unload_first(this, env, counter, order, i, relock) ==
    IF i > Len(order) \/ i > 1 \/ env.status # "running"
    THEN [this |-> this, env |-> env, closed |-> counter]
    ELSE LET o == _unload(this, env, order[i], relock) IN
         [this |-> o.this, env |-> o.env,
          closed |-> IF o.last THEN [counter EXCEPT ![order[i]] = @ + 1] ELSE counter]

\* the loop of ModuleLoader::uninstall over the names of the cloned index in
\* the order the HashMap iterates, errors logged: [this, env, closed]
RECURSIVE unload_each(_, _, _, _, _, _)
unloaded(o, counter, order, i, relock) ==
    unload_each(o.this, o.env,
                IF o.last THEN [counter EXCEPT ![order[i]] = @ + 1] ELSE counter,
                order, i + 1, relock)
unload_each(this, env, counter, order, i, relock) ==
    IF i > Len(order) \/ env.status # "running"
    THEN [this |-> this, env |-> env, closed |-> counter]
    ELSE unloaded(_unload(this, env, order[i], relock), counter, order, i, relock)

\* the end of ModuleLoader::uninstall in the root image: the loader is
\* dropped, and with it the libraries of the modules it still holds, and the
\* static is reset
release(u) ==
    IF u.env.status # "running" THEN u
    ELSE [this |-> Released,
          env |-> [u.env EXCEPT !.statics = [image \in DOMAIN @ |-> DataNull]],
          closed |-> u.closed]

\* an uninstall that takes every installer for the root
uninstall_as_root(this, env, counter, image, order, relock) ==
    release(unload_each(this, env, counter, order, 1, relock))

\* ModuleLoader::uninstall called in an image by a thread that does not hold
\* the loader's lock: [this, env, closed]
uninstall(this, env, counter, image, order, relock) ==
    IF ~env.statics[image].is_set
    THEN [this |-> this, env |-> [env EXCEPT !.status = "aborted"], closed |-> counter]
    ELSE IF ~env.statics[image].is_root
    THEN [this |-> this, env |-> [env EXCEPT !.statics[image] = DataNull],
          closed |-> counter]
    ELSE release(unload_each(this, env, counter, order, 1, relock))

\* the loads that returned Ok so far
RECURSIVE Total(_, _)
Total(counter, names) ==
    IF names = {} THEN 0
    ELSE LET n == CHOOSE n \in names : TRUE IN counter[n] + Total(counter, names \ {n})

CanLoad == status = "running" /\ Total(loads, Names) < MaxLoads

\* the loader, the hooks' side and the Result after a registry call with
\* outcome o
Leaves(op, o) ==
    /\ paths' = o.this.paths
    /\ modules' = o.this.modules
    /\ builtin_modules' = o.this.builtin_modules
    /\ deps' = o.this.deps
    /\ builtins' = o.this.builtins
    /\ module_name_to_id' = o.this.module_name_to_id
    /\ last_module_id' = o.this.last_module_id
    /\ statics' = o.env.statics
    /\ hooks' = o.env.hooks
    /\ status' = o.env.status
    /\ result' = IF o.env.status = "running" THEN ResultOf(op, o.res, o.id)
                 ELSE [NoResult EXCEPT !.op = op]

\* the state after a registry call with outcome o made under the lock in one
\* piece
Returns(op, o) == Leaves(op, o) /\ UNCHANGED <<thread_vars, scan>>

\* the counters after a load of name with outcome o
Loaded(name, o) ==
    /\ loads' = IF o.res.ok THEN [loads EXCEPT ![name] = @ + 1] ELSE loads
    /\ opened' = IF o.fresh THEN [opened EXCEPT ![name] = @ + 1] ELSE opened
    /\ UNCHANGED <<unloads, closed>>

\* the counters after an unload of name with outcome o
Unloaded(name, o) ==
    /\ unloads' = IF name \in DOMAIN module_name_to_id
                  THEN [unloads EXCEPT ![name] = @ + 1] ELSE unloads
    /\ closed' = IF o.last THEN [closed EXCEPT ![name] = @ + 1] ELSE closed
    /\ UNCHANGED <<loads, opened>>

\* ModuleLoader::lock: the loader and the hooks' side under the guard
Locked == _lock(This, Env)

\* Lock::load
Load(name) ==
    /\ CanLoad
    /\ \E o \in {_load(Locked.this, Locked.env, name)} :
           Returns("load", o) /\ Loaded(ReplaceChar(name, "-", "_"), o)

\* Lock::load_self
LoadSelf(name) ==
    /\ CanLoad
    /\ \E o \in {_load_self(Locked.this, Locked.env, name)} :
           Returns("load_self", o) /\ Loaded(ReplaceChar(name, "-", "_"), o)

\* Lock::load_builtin
LoadBuiltin(name) ==
    /\ CanLoad
    /\ \E o \in {_load_builtin(Locked.this, Locked.env, name)} :
           Returns("load_builtin", o) /\ Loaded(ReplaceChar(name, "-", "_"), o)

\* Lock::unload
Unload(name, relock) ==
    /\ status = "running"
    /\ \E o \in {_unload(Locked.this, Locked.env, name, relock)} :
           Returns("unload", o) /\ Unloaded(ReplaceChar(name, "-", "_"), o)

\* Lock::add_search_path
AddSearchPath(path) ==
    /\ status = "running"
    /\ Len(paths) < MaxPaths
    /\ Returns("add_search_path",
               Outcome(Ok, -1, [Locked.this EXCEPT !.paths = Append(@, path)],
                       Locked.env, FALSE, FALSE))
    /\ UNCHANGED count_vars

\* ModuleLoader::_remove_search_path
RemoveSearchPath(path) ==
    /\ status = "running"
    /\ paths' = SelectSeq(paths, LAMBDA q : q # path)
    /\ result' = [NoResult EXCEPT !.op = "remove_search_path", !.kind = "Ok"]
    /\ UNCHANGED <<modules, builtin_modules, builtins, module_name_to_id,
                   last_module_id, deps, hook_vars, count_vars, thread_vars, scan>>

\* Lock::add_public_dependency
AddPublicDependency(name, version, features) ==
    /\ status = "running"
    /\ deps' = add_public_dependency(deps, name, version, features)
    /\ result' = [NoResult EXCEPT !.op = "add_public_dependency", !.kind = "Ok"]
    /\ UNCHANGED <<registry_vars, hook_vars, count_vars, thread_vars, scan>>

Next ==
    \/ \E name \in LoaderNames : Load(name)
    \/ \E name \in LoaderNames : LoadSelf(name)
    \/ \E name \in LoaderNames : LoadBuiltin(name)
    \/ \E name \in LoaderNames : \E relock \in Relock : Unload(name, relock)
    \/ AddSearchPath(D1)
    \/ RemoveSearchPath(D1)
    \/ AddPublicDependency(N_a, V200, <<STAR>>)

Spec == Init /\ [][Next]_vars

\* a host that asks for the names of the resolution checks
NextResolve ==
    \/ \E name \in ResolveNames : Load(name)
    \/ \E name \in ResolveNames : LoadSelf(name)
    \/ \E name \in ResolveNames :
            /\ name = N_q => Len(hooks[N_q]) < MaxRefused
            /\ LoadBuiltin(name)
    \/ \E name \in ResolveNames : \E relock \in Relock : Unload(name, relock)
    \/ AddSearchPath(D1)

SpecResolve == Init /\ [][NextResolve]_vars

\* the orders in which a HashMap with the keys S iterates
Orders(S) ==
    {order \in [1..Cardinality(S) -> S] :
        \A i, j \in DOMAIN order : order[i] = order[j] => i = j}

\* a process in which no loader was installed yet
InitInstall ==
    /\ paths = Released.paths
    /\ modules = Released.modules
    /\ builtin_modules = Released.builtin_modules
    /\ builtins = Released.builtins
    /\ deps = Released.deps
    /\ module_name_to_id = Released.module_name_to_id
    /\ last_module_id = Released.last_module_id
    /\ statics = [image \in {"host", "libm", "libd", "libr", "c"} |-> DataNull]
    /\ hooks = [n \in Names |-> <<>>]
    /\ status = "running"
    /\ loads = [n \in Names |-> 0]
    /\ unloads = [n \in Names |-> 0]
    /\ opened = [n \in Names |-> 0]
    /\ closed = [n \in Names |-> 0]
    /\ result = NoResult
    /\ holder = 0
    /\ threads = [t \in Threads |-> ThreadIdle]
    /\ scan = NoScan

\* ModuleLoader::install(bs) called by the application
Install(bs) ==
    /\ status = "running"
    /\ \E o \in {install(This, Env, bs)} :
           Returns("install", Outcome(Ok, -1, o.this, o.env, FALSE, FALSE))
    /\ UNCHANGED count_vars

\* ModuleLoader::uninstall called in an image, outside of any hook
Uninstall(image, order, relock) ==
    /\ status = "running"
    /\ \E u \in {uninstall(This, Env, closed, image, order, relock)} :
           /\ Returns("uninstall", Outcome(Ok, -1, u.this, u.env, FALSE, FALSE))
           /\ closed' = u.closed
    /\ UNCHANGED <<loads, unloads, opened>>

\* the modules of the processes with installs and uninstalls
InstallNames == {N_d, N_p, N_n}

NextInstall ==
    \/ \E bs \in {Builtins} : Install(bs)
    \/ \E image \in {"host", "libd"} :
           \E order \in Orders(DOMAIN module_name_to_id) :
               \E relock \in Relock : Uninstall(image, order, relock)
    \/ \E name \in InstallNames : Load(name)
    \/ \E name \in InstallNames : LoadSelf(name)
    \/ \E name \in InstallNames : LoadBuiltin(name)
    \/ \E name \in InstallNames : \E relock \in Relock : Unload(name, relock)
    \/ AddSearchPath(D1)

SpecInstall == InitInstall /\ [][NextInstall]_vars

\* a loader installed by the host with d1 as its search path
InitThreads ==
    /\ paths = <<D1>>
    /\ modules = <<>>
    /\ builtin_modules = <<>>
    /\ builtins = Builtins
    /\ deps = ModuleLoaderNew(Builtins).deps
    /\ module_name_to_id = <<>>
    /\ last_module_id = 0
    /\ statics = [image \in {"host", "libm", "libd", "libr", "c"} |->
                    IF image = "host" THEN DataRoot ELSE DataNull]
    /\ hooks = [n \in Names |-> <<>>]
    /\ status = "running"
    /\ loads = [n \in Names |-> 0]
    /\ unloads = [n \in Names |-> 0]
    /\ opened = [n \in Names |-> 0]
    /\ closed = [n \in Names |-> 0]
    /\ result = NoResult
    /\ holder = 0
    /\ threads = [t \in Threads |-> ThreadIdle]
    /\ scan = NoScan

\* a mutex that every thread can lock at any time
mutex_ignored(h, t) == TRUE

\* Mutex::lock of the loader returns in thread t: no thread holds the mutex
mutex_available(h, t) == h = 0

\* thread t calls ModuleLoader::lock() to make the call op(name)
Call(t, op, name) ==
    /\ status # "aborted"
    /\ threads[t].pc = "idle"
    /\ threads[t].calls < MaxCalls
    /\ threads' = [threads EXCEPT ![t] =
                      [pc |-> "waiting", op |-> op, name |-> name, found |-> FALSE,
                       kind |-> "none", id |-> -1, calls |-> @.calls + 1,
                       contended |-> holder # 0]]
    /\ UNCHANGED <<registry_vars, deps, hook_vars, count_vars, result, holder, scan>>

\* ModuleLoader::_lock returns the guard to thread t
Acquire(t) ==
    /\ status # "aborted"
    /\ threads[t].pc = "waiting"
    /\ mutex_available(holder, t)
    /\ holder' = t
    /\ threads' = [threads EXCEPT ![t].pc = "locked"]
    /\ Leaves("lock", Outcome(Ok, -1, Locked.this, Locked.env, FALSE, FALSE))
    /\ UNCHANGED <<count_vars, scan>>

\* the lookup of the name in the index, the first statement of _load and of
\* _unload
Lookup(t) ==
    /\ status # "aborted"
    /\ threads[t].pc = "locked"
    /\ threads' = [threads EXCEPT
                      ![t].pc = "looked",
                      ![t].found = ReplaceChar(threads[t].name, "-", "_")
                                      \in DOMAIN module_name_to_id]
    /\ UNCHANGED <<registry_vars, deps, hook_vars, count_vars, result, holder, scan>>

\* the rest of _load or _unload after the lookup of thread record th
finish(this, env, th, relock) ==
    IF th.op = "unload" THEN _unload(this, env, th.name, relock)
    ELSE IF th.found THEN _load(this, env, th.name)
    ELSE load_unregistered(this, env, ReplaceChar(th.name, "-", "_"))

\* the counters and the thread after the rest of the call with outcome o; a
\* thread whose hook locked the mutex again never returns
Finished(t, name, o) ==
    /\ Leaves(threads[t].op, o)
    /\ IF threads[t].op = "unload" THEN Unloaded(name, o) ELSE Loaded(name, o)
    /\ threads' = [threads EXCEPT
                      ![t].pc = IF o.env.status = "running" THEN "returned"
                                ELSE o.env.status,
                      ![t].kind = o.res.kind,
                      ![t].id = o.id]
    /\ UNCHANGED <<holder, scan>>

\* the rest of _load or _unload in thread t, hooks included
Finish(t) ==
    /\ status # "aborted"
    /\ threads[t].pc = "looked"
    /\ \E relock \in Relock :
           \E o \in {finish(This, Env, threads[t], relock)} :
               Finished(t, ReplaceChar(threads[t].name, "-", "_"), o)

\* the Lock of thread t is dropped
Release(t) ==
    /\ status # "aborted"
    /\ threads[t].pc = "returned"
    /\ holder' = 0
    /\ threads' = [threads EXCEPT ![t].pc = "idle"]
    /\ UNCHANGED <<registry_vars, deps, hook_vars, count_vars, result, scan>>

\* the steps of a call that thread t has made
Proceed(t) == Acquire(t) \/ Lookup(t) \/ Finish(t) \/ Release(t)

NextThreads ==
    \/ \E t \in Threads : \E name \in ThreadNames : Call(t, "load", name)
    \/ \E t \in Threads : \E name \in ThreadNames : Call(t, "unload", name)
    \/ \E t \in Threads : Acquire(t)
    \/ \E t \in Threads : Lookup(t)
    \/ \E t \in Threads : Finish(t)
    \/ \E t \in Threads : Release(t)

SpecThreads == InitThreads /\ [][NextThreads]_vars

\* thread t is not stopped: it is inside _load or _unload, or it is in
\* Mutex::lock and the mutex is free
CanProceed(t) ==
    /\ status # "aborted"
    /\ \/ threads[t].pc \in {"locked", "looked", "returned"}
       \/ threads[t].pc = "waiting" /\ mutex_available(holder, t)

\* what a step of its call can leave in the record of thread t
Proceeded(t) ==
    {[threads[t] EXCEPT !.pc = pc, !.found = found, !.kind = kind, !.id = id] :
        pc \in {"locked", "looked", "returned", "idle", "blocked", "aborted"},
        found \in BOOLEAN, kind \in {"none", "Ok", "NotFound"},
        id \in -1..(2 * MaxCalls)}

\* the scheduler runs thread t: the steps Proceed(t), told by the record of
\* the thread
Scheduled(t) ==
    /\ CanProceed(t)
    /\ \E th \in Proceeded(t) :
           th.pc # threads[t].pc /\ threads' = [threads EXCEPT ![t] = th]

\* the scheduler runs every thread that can take a step
SpecThreadsFair == SpecThreads /\ \A t \in Threads : WF_threads(Scheduled(t))

\* ------------------------------------------- lookups by name

\* a lookup that takes the name as it is written
get_exact(this, table, name) ==
    IF name \in DOMAIN this.module_name_to_id
    THEN IF this.module_name_to_id[name] \in DOMAIN table
         THEN [some |-> TRUE, id |-> table[this.module_name_to_id[name]].id]
         ELSE [some |-> FALSE, id |-> -1]
    ELSE [some |-> FALSE, id |-> -1]

\* the body of _get_builtin and of _get_module over the table of each
get(this, table, name) == get_exact(this, table, ReplaceChar(name, "-", "_"))

\* ModuleLoader::_get_builtin
_get_builtin(this, name) == get(this, this.builtin_modules, name)

\* ModuleLoader::_get_module
_get_module(this, name) == get(this, this.modules, name)

\* the state after a lookup that answered found: Some(id) or None
Got(op, found) ==
    /\ Returns(op, Outcome(IF found.some THEN [Ok EXCEPT !.kind = "Some"]
                           ELSE ErrKind("None"),
                           found.id, Locked.this, Locked.env, FALSE, FALSE))
    /\ UNCHANGED count_vars

\* Lock::get_builtin
GetBuiltin(name) ==
    /\ status = "running"
    /\ \E found \in {_get_builtin(Locked.this, name)} : Got("get_builtin", found)

\* Lock::get_module
GetModule(name) ==
    /\ status = "running"
    /\ \E found \in {_get_module(Locked.this, name)} : Got("get_module", found)

\* a host with the builtin w_z and the search path of u_v.so
InitNames ==
    /\ paths = <<D1>>
    /\ modules = <<>>
    /\ builtin_modules = <<>>
    /\ builtins = UnderscoreBuiltins
    /\ deps = ModuleLoaderNew(UnderscoreBuiltins).deps
    /\ module_name_to_id = <<>>
    /\ last_module_id = 0
    /\ statics = [image \in {"host", "libu"} |->
                    IF image = "host" THEN DataRoot ELSE DataNull]
    /\ hooks = [n \in Names |-> <<>>]
    /\ status = "running"
    /\ loads = [n \in Names |-> 0]
    /\ unloads = [n \in Names |-> 0]
    /\ opened = [n \in Names |-> 0]
    /\ closed = [n \in Names |-> 0]
    /\ result = NoResult
    /\ holder = 0
    /\ threads = [t \in Threads |-> ThreadIdle]
    /\ scan = NoScan

\* the callers write the names with a hyphen
NextNames ==
    \/ \E name \in HyphenNames : Load(name)
    \/ \E name \in HyphenNames : LoadSelf(name)
    \/ \E name \in HyphenNames : LoadBuiltin(name)
    \/ \E name \in HyphenNames : \E relock \in Relock : Unload(name, relock)
    \/ \E name \in HyphenNames : GetModule(name)
    \/ \E name \in HyphenNames : GetBuiltin(name)

SpecNames == InitNames /\ [][NextNames]_vars

\* ------------------------------------------- load_metadata over a file

\* the most fill bytes before the descriptor of a file
MaxFill == 26

\* n bytes of a library that are neither 'B' nor zero
Fill(n) == [i \in 1..n |-> "x"]

\* what a library holds next to the fill: nothing, or a run that starts with
\* 'B' and is no header
ScanRuns == {<<>>, <<"B", "P">>}

\* the segments of the descriptors
ScanSegments ==
    {<<"A", "=", "1">>, <<"A", "=", "2">>, <<"C", "=", "1", "=", "2">>,
     <<"A">>, <<>>, <<"=">>, <<"A", "=", XFF>>}

\* the descriptors hold one or two segments
ScanBodies ==
    {<<s>> : s \in ScanSegments} \cup {<<s, t>> : s, t \in ScanSegments}

\* a descriptor static with the segments: a zero byte, the header, the
\* segments with pipes between them, a zero byte
descriptor_of(segments) ==
    <<NUL>> \o MOD_HEADER \o Join(segments, <<"|">>) \o <<NUL>>

\* a library file: fill, a run, fill, the descriptor static
ScanFile(before, run, between, segments) ==
    Fill(before) \o run \o Fill(between) \o descriptor_of(segments)

\* load_metadata(path) before the first read of the file
ScanStart(before, run, between, segments) ==
    [pc |-> "reading", file |-> ScanFile(before, run, between, segments),
     before |-> before, run |-> run, between |-> between, segments |-> segments,
     offset |-> 0, reads |-> 0, buffer |-> [i \in 1..BufferSize |-> NUL], v |-> <<>>,
     res |-> Ok, metadata |-> <<>>]

InitScan ==
    /\ paths = <<>>
    /\ modules = <<>>
    /\ builtin_modules = <<>>
    /\ builtins = <<>>
    /\ deps = DepsMapNew
    /\ module_name_to_id = <<>>
    /\ last_module_id = 0
    /\ statics = [image \in {"host"} |-> DataNull]
    /\ hooks = <<>>
    /\ status = "running"
    /\ loads = <<>>
    /\ unloads = <<>>
    /\ opened = <<>>
    /\ closed = <<>>
    /\ result = NoResult
    /\ holder = 0
    /\ threads = [t \in Threads |-> ThreadIdle]
    /\ \E before \in 0..MaxFill : \E run \in ScanRuns :
           \E between \in {0, 2} : \E segments \in ScanBodies :
               /\ run = <<>> => between = 0
               /\ scan = ScanStart(before, run, between, segments)

\* the scan after the inner loop left r over the buffer of a read of n bytes
Scanned(n, buffer, r) ==
    scan' = IF r.found
            THEN [scan EXCEPT !.pc = "returned", !.buffer = buffer, !.v = r.v,
                              !.reads = @ + 1,
                              !.res = r.parsed.res, !.metadata = r.parsed.metadata]
            ELSE [scan EXCEPT !.offset = @ + n, !.buffer = buffer, !.v = r.v,
                              !.reads = @ + 1]

\* one turn of the outer loop of load_metadata: a read of more than 0 bytes,
\* then the inner loop over the buffer
ReadChunk ==
    /\ scan.pc = "reading"
    /\ scan.offset < Len(scan.file)
    /\ \E rd \in {file_read(scan.file, scan.offset, scan.buffer)} :
           \E r \in {scan_slice(rd.buffer, scan.v)} : Scanned(rd.n, rd.buffer, r)
    /\ UNCHANGED <<registry_vars, deps, hook_vars, count_vars, result, thread_vars>>

\* the read at the end of the file returns 0: load_metadata returns
\* Err(MissingMetadata)
ReadEnd ==
    /\ scan.pc = "reading"
    /\ scan.offset = Len(scan.file)
    /\ scan' = [scan EXCEPT !.pc = "returned", !.res = ErrKind("MissingMetadata")]
    /\ UNCHANGED <<registry_vars, deps, hook_vars, count_vars, result, thread_vars>>

NextScan == ReadChunk \/ ReadEnd

SpecScan == InitScan /\ [][NextScan]_vars

\* ------------------------------------------- properties of the registry

\* the registered module of name n in a registry
ModuleOf(ids, table, builtin_table, n) ==
    IF ids[n] \in DOMAIN table THEN table[ids[n]] ELSE builtin_table[ids[n]]

Registered(n) == n \in DOMAIN module_name_to_id

RefCount(n) == ModuleOf(module_name_to_id, modules, builtin_modules, n).ref_count

\* the call before this step returned Ok from load operation op with the id
\* of n, which that call registered
JustLoaded(op, n) ==
    /\ result.op = op /\ result.kind = "Ok"
    /\ Registered(n) /\ module_name_to_id[n] = result.id
    /\ RefCount(n) = 1

\* n is loaded a second time with the operation that registered it
SecondLoad(n) ==
    \/ JustLoaded("load", n) /\ Load(n)
    \/ JustLoaded("load_self", n) /\ LoadSelf(n)
    \/ JustLoaded("load_builtin", n) /\ LoadBuiltin(n)

\* the step of C1
C1_Step ==
    \A n \in LoaderNames :
        /\ SecondLoad(n)
           => /\ result'.kind = "Ok" /\ result'.id = result.id
              /\ module_name_to_id' = module_name_to_id
              /\ DOMAIN modules' = DOMAIN modules
              /\ DOMAIN builtin_modules' = DOMAIN builtin_modules
              /\ ModuleOf(module_name_to_id', modules', builtin_modules', n).ref_count = 2
              /\ hooks' = hooks /\ closed' = closed
        /\ (Registered(n) /\ RefCount(n) = 2 /\ \E relock \in Relock : Unload(n, relock))
           => /\ result'.kind = "Ok"
              /\ n \in DOMAIN module_name_to_id'
              /\ module_name_to_id'[n] = module_name_to_id[n]
              /\ ModuleOf(module_name_to_id', modules', builtin_modules', n).ref_count = 1
              /\ hooks' = hooks /\ closed' = closed /\ status' = "running"

\* C1: loading a name a second time with the operation that registered it,
\* no unload in between, returns the same id and leaves one registered module
\* of ref_count 2; an unload at ref_count 2 leaves the module registered with
\* ref_count 1 and calls no hook.
C1_IdempotentIncrement == [][C1_Step]_vars

\* some name was loaded twice and unloaded once: it is registered with
\* ref_count 1 and was never closed
C1_Witness ==
    /\ result.op = "unload" /\ result.kind = "Ok"
    /\ \E n \in LoaderNames :
        /\ loads[n] = 2 /\ unloads[n] = 1 /\ opened[n] = 1 /\ closed[n] = 0
        /\ Registered(n) /\ RefCount(n) = 1

\* C2, as stated: after N successful loads and M unloads of a name it is
\* registered iff N > M, and when N = M the close protocol has run exactly
\* once.
C2_ClosedOnce ==
    \A n \in LoaderNames :
        /\ Registered(n) <=> loads[n] > unloads[n]
        /\ (loads[n] = unloads[n] /\ loads[n] > 0) => closed[n] = 1

\* the state part of C2, amended
C2_Balance ==
    \A n \in LoaderNames :
        /\ unloads[n] <= loads[n]
        /\ Registered(n) <=> loads[n] > unloads[n]
        /\ closed[n] = opened[n] - (IF Registered(n) THEN 1 ELSE 0)

\* the step part of C2, amended
C2_Step ==
    \A n \in LoaderNames :
        closed'[n] # closed[n]
        => /\ Registered(n) /\ RefCount(n) = 1
           /\ unloads'[n] = unloads[n] + 1
           /\ closed'[n] = closed[n] + 1
           /\ n \notin DOMAIN module_name_to_id'

\* C2, amended: after N successful loads and M unloads of a name it is
\* registered iff N > M; the close protocol runs once per registration, at
\* the unload that brings the ref_count of that registration to 0 and at no
\* other step, so that when N = M it has run as often as the name was
\* registered (twice after load, unload, load, unload).
C2_Lifecycle == []C2_Balance /\ [][C2_Step]_vars

\* a name was loaded, unloaded, loaded again and unloaded again
C2_Witness ==
    \E n \in LoaderNames :
        /\ loads[n] = 2 /\ unloads[n] = 2
        /\ opened[n] = 2 /\ closed[n] = 2
        /\ ~Registered(n)

\* ------------------------------------------ properties of the resolution

\* the running process exports the descriptor symbol of name
SelfExports(name) == load_symbol(SelfLibrary, mod_const_name(name))

\* a search path holds <name>.so or lib<name>.so
FileOnPath(name) ==
    \E i \in 1..Len(paths) :
        \/ path_join(paths[i], name \o <<".", "s", "o">>) \in DOMAIN Files
        \/ path_join(paths[i], <<"l", "i", "b">> \o name \o <<".", "s", "o">>)
               \in DOMAIN Files

\* the libraries of the files
FileLibraries == {Files[f].lib : f \in DOMAIN Files}

Returned(op, name) ==
    /\ result.op = op /\ result.kind = "Ok"
    /\ Registered(name) /\ module_name_to_id[name] = result.id

\* C12, as stated: for d, which the running process exports and a search
\* path holds as a file, load_self only ever returns the module backed by the
\* running process and load only ever returns the module backed by the file,
\* whatever was registered before.
C12_IndependentSources ==
    /\ Returned("load_self", N_d) => modules[result.id].lib = SelfLibrary
    /\ Returned("load", N_d) => modules[result.id].lib = FileD.lib

\* the registry after a request for a registered name n
RepeatLoad(n, table) ==
    IF module_name_to_id[n] \in DOMAIN table
    THEN /\ result'.kind = "Ok"
         /\ result'.id = module_name_to_id[n]
         /\ ModuleOf(module_name_to_id', modules', builtin_modules', n).ref_count
                = RefCount(n) + 1
         /\ module_name_to_id' = module_name_to_id
    ELSE /\ result'.kind = "NotFound"
         /\ result'.name = n
         /\ UNCHANGED <<registry_vars, deps, hook_vars>>

\* C13, as stated: a load, load_self or load_builtin of a registered name
\* returns Ok with the module's id and adds 1 to its ref_count, whichever
\* operation registered it.
C13_AnyLoadIncrements ==
    [][\A n \in ResolveNames :
        (Registered(n) /\ (Load(n) \/ LoadSelf(n) \/ LoadBuiltin(n)))
        => RepeatLoad(n, modules @@ builtin_modules)]_vars

\* C13, amended: load and load_self of a name registered by load or load_self,
\* and load_builtin of a name registered by load_builtin, return Ok with the
\* module's id and add exactly 1 to its ref_count; load or load_self of a
\* name registered by load_builtin, and load_builtin of a name registered by
\* load or load_self, return NotFound(name) and change nothing.
C13_SameTableIncrements ==
    [][\A n \in ResolveNames :
        /\ (Registered(n) /\ (Load(n) \/ LoadSelf(n))) => RepeatLoad(n, modules)
        /\ (Registered(n) /\ LoadBuiltin(n)) => RepeatLoad(n, builtin_modules)]_vars

\* a builtin was registered and load of its name returned NotFound
C13_Witness ==
    /\ result.op = "load" /\ result.kind = "NotFound"
    /\ Registered(result.name)
    /\ module_name_to_id[result.name] \in DOMAIN builtin_modules

\* ----------------------------------------------- properties of the hooks

\* a call of one of the three load operations for n
AnyLoad(n) ==
    /\ loads'[n] # loads[n] \/ result'.kind # "Ok"
    /\ \/ result'.op = "load" /\ Load(n)
       \/ result'.op = "load_self" /\ LoadSelf(n)
       \/ result'.op = "load_builtin" /\ LoadBuiltin(n)

\* the step registers n
FreshLoad(n) == ~Registered(n) /\ n \in DOMAIN module_name_to_id'

\* the library exports the hook of module n
Exports(lib, n, hook) == load_symbol(lib, hook_symbol(n, hook))

\* a module of TYPE RUST
Managed(module) ==
    K_TYPE \in DOMAIN module.metadata /\ module.metadata[K_TYPE] = T_RUST

\* the hooks of the open protocol of a module, in order: for a managed
\* module the debug engine hook if exported and the init hook, then the open
\* hook if exported
OpenSequence(module, n) ==
    (IF Managed(module)
     THEN (IF Exports(module.lib, n, H_debug) THEN <<H_debug>> ELSE <<>>)
          \o <<H_init>>
     ELSE <<>>)
    \o (IF Exports(module.lib, n, H_open) THEN <<H_open>> ELSE <<>>)

\* the part of C14 that holds as stated, for a load of n
OpenStep(n) ==
    /\ \A k \in Names \ {n} : hooks'[k] = hooks[k]
    /\ Registered(n) => (hooks' = hooks /\ deps' = deps)
    /\ FreshLoad(n)
       => hooks'[n] = hooks[n] \o OpenSequence(
              ModuleOf(module_name_to_id', modules', builtin_modules', n), n)
    /\ (n = N_q /\ LoadBuiltin(n))
       => /\ result'.kind = "MissingModuleInitForRust"
          /\ n \notin DOMAIN module_name_to_id'

\* C14, as stated: hooks run only on the load that registers a module, in the
\* order debug, init (managed modules), open; a managed module without init
\* fails to load and is not registered; a load of a registered name calls no
\* hook and leaves the DepsMap alone.
C14_OpenProtocol ==
    [][\A n \in ResolveNames :
        AnyLoad(n) => (OpenStep(n) /\ (hooks' # hooks => FreshLoad(n)))]_vars

\* C14, amended: a load of a registered name calls no hook and leaves the
\* DepsMap alone; a load that registers a module has called its hooks in the
\* order debug, init (managed modules), open; a managed module without init
\* fails to load with MissingModuleInitForRust and is not registered, but its
\* debug hook, when it exports one, has run by then.
C14_OpenHooks ==
    [][\A n \in ResolveNames :
        AnyLoad(n)
        => /\ OpenStep(n)
           /\ (hooks' # hooks /\ ~FreshLoad(n))
              => /\ ~Registered(n)
                 /\ result'.kind = "MissingModuleInitForRust"
                 /\ hooks'[n] = Append(hooks[n], H_debug)]_vars

\* p was loaded twice, its hooks ran once in the order debug, init, open, and
\* q was refused after its debug hook ran
C14_Witness ==
    /\ hooks[N_p] = <<H_debug, H_init, H_open>>
    /\ Registered(N_p) /\ RefCount(N_p) = 2
    /\ hooks[N_q] = <<H_debug>>
    /\ ~Registered(N_q)

\* C15, as stated: when a module is closed its close hook is invoked before
\* its uninit hook: in the log of a module whose close hook has run, every
\* uninit directly follows a close.
C15_CloseBeforeUninit ==
    \A n \in ResolveNames :
        \A i \in 1..Len(hooks[n]) :
            (hooks[n][i] = H_uninit /\ \E j \in 1..Len(hooks[n]) : hooks[n][j] = H_close)
            => (i > 1 /\ hooks[n][i - 1] = H_close)

\* ------------------------------------ properties of install and uninstall

\* a call of uninstall in the image
UninstallCall(image) ==
    /\ result'.op = "uninstall"
    /\ \E order \in Orders(DOMAIN module_name_to_id) :
           \E relock \in Relock : Uninstall(image, order, relock)

\* a call of uninstall in the image that returned
Uninstalled(image) == status' = "running" /\ UninstallCall(image)

\* C16, as stated: an uninstall by the root installer that returns has run
\* the close protocol of every module registered at the call exactly once,
\* whatever its ref_count, has released the registry and has unset the
\* instance.
C16_RootTeardown ==
    [][(statics["host"] = DataRoot /\ Uninstalled("host"))
       => /\ \A n \in DOMAIN module_name_to_id : closed'[n] = closed[n] + 1
          /\ module_name_to_id' = <<>>
          /\ ~statics'["host"].is_set]_vars

C18_SecondInstall ==
    [][\A bs \in {Builtins} :
        (statics["host"].is_set /\ result'.op = "install" /\ Install(bs))
        => /\ status' = "aborted"
           /\ UNCHANGED <<registry_vars, deps, statics, hooks, count_vars>>]_vars

\* an install panicked on the loader that the first lock installed (it has no
\* builtins), in which n is registered
C18_Witness ==
    /\ status = "aborted" /\ result.op = "install"
    /\ statics["host"] = DataRoot
    /\ builtins = <<>>
    /\ Registered(N_n)

\* ------------------------------------------------ properties of the lock

\* every thread made one call, load(n), and it returned Ok
EachLoadedOnce(n) ==
    \A t \in Threads :
        /\ threads[t].pc = "idle" /\ threads[t].calls = 1
        /\ threads[t].op = "load" /\ threads[t].name = n
        /\ threads[t].kind = "Ok"

\* C19: when two threads each call load for the same name that is not
\* registered, one call searches the file, negotiates, runs the open hooks
\* and registers the module, the other only adds a reference: the hooks ran
\* once, one id was handed out, both calls returned it and the ref_count is 2.
C19_SerializedLoads ==
    \A n \in ThreadNames :
        EachLoadedOnce(n)
        => /\ opened[n] = 1 /\ loads[n] = 2
           /\ last_module_id = 1
           /\ Registered(n) /\ RefCount(n) = 2
           /\ \A t \in Threads : threads[t].id = module_name_to_id[n]
           /\ hooks[n] = OpenSequence(modules[module_name_to_id[n]], n)
           /\ DOMAIN deps.module_version = {n}

\* both threads loaded d, and one of them called while the other held the
\* lock
C19_Witness ==
    /\ EachLoadedOnce(N_d)
    /\ \E t \in Threads : threads[t].contended

\* the hook called last on the module that thread t asked for locks the
\* loader: the open hook of r, or the uninit hook of a module of the host
HookReentered(t) ==
    LET log == hooks[ReplaceChar(threads[t].name, "-", "_")] IN
    /\ log # <<>>
    /\ \/ threads[t].name = N_r /\ log[Len(log)] = H_open
       \/ log[Len(log)] = H_uninit

\* hooks run under the lock, a thread is stuck only in a hook that locked
\* the loader again, and it keeps the lock; a load of r, whose open hook
\* locks the loader, does not return
LockHeldInHooks ==
    /\ \A t \in Threads :
        /\ threads[t].pc \in {"locked", "looked", "returned"} => holder = t
        /\ (threads[t].op = "load" /\ threads[t].name = N_r)
           => threads[t].pc \notin {"returned", "idle"}
        /\ threads[t].pc \in {"blocked", "aborted"}
           => (holder = t /\ status = threads[t].pc /\ HookReentered(t))
    /\ status # "running" => \E t \in Threads : threads[t].pc = status

\* C20: hooks run while the calling thread holds the lock; a thread whose
\* hook locks the loader again never returns and keeps the lock; every call
\* of load or unload returns unless a hook has locked the loader again.
C20_ReentrantHookDeadlocks ==
    /\ []LockHeldInHooks
    /\ [][\A t \in Threads : Proceed(t) => Scheduled(t)]_vars
    /\ [][\A t \in Threads : \A name \in ThreadNames : \A op \in {"load", "unload"} :
            Call(t, op, name) => ~Scheduled(t)]_vars
    /\ \A t \in Threads :
        (threads[t].pc = "waiting")
            ~> (threads[t].pc = "idle" \/ status # "running")

\* the open hook of r locked the loader in thread 1, which holds the lock
\* for ever, and thread 2 waits for it: no thread can take a step
C20_Witness ==
    /\ threads[1].pc = "blocked" /\ holder = 1
    /\ threads[1].op = "load" /\ threads[1].name = N_r
    /\ hooks[N_r] = <<H_init, H_open>>
    /\ threads[2].pc = "waiting" /\ threads[2].calls = MaxCalls
    /\ ~ENABLED NextThreads

\* --------------------------------------------------- properties of the ids

\* C21: over the loads and unloads on one loader no two registrations get
\* the same id, a re-registration of a name after its full unload included:
\* a registration takes last_module_id, which is above every id handed out
\* before and only grows, and the id of a registered module does not change
\* while it is registered.
C21_UniqueIds ==
    [][/\ last_module_id' >= last_module_id
       /\ \A n \in DOMAIN module_name_to_id : module_name_to_id[n] < last_module_id
       /\ \A n \in DOMAIN module_name_to_id' :
            IF n \in DOMAIN module_name_to_id
            THEN module_name_to_id'[n] = module_name_to_id[n]
            ELSE /\ module_name_to_id'[n] = last_module_id
                 /\ last_module_id' = last_module_id + 1
       /\ \A n1, n2 \in DOMAIN module_name_to_id' :
            module_name_to_id'[n1] = module_name_to_id'[n2] => n1 = n2
       /\ \A n \in DOMAIN module_name_to_id' :
            ModuleOf(module_name_to_id', modules', builtin_modules', n).id
                = module_name_to_id'[n]]_vars

\* a module was registered, fully unloaded and registered again, with
\* another id, while another module is registered
C21_Witness ==
    \E n \in LoaderNames :
        /\ opened[n] = 2 /\ closed[n] = 1
        /\ Registered(n) /\ module_name_to_id[n] > 0
        /\ \E n2 \in LoaderNames \ {n} : Registered(n2)

\* ------------------------------------- properties of unload and negotiation

\* C22, as stated: once a module was fully unloaded the DepsMap holds nothing
\* of it: no recorded version, no dependency table and no reverse-index entry
\* that names it.
C22_UnloadForgets ==
    \A n \in LoaderNames :
        (status = "running" /\ opened[n] > 0 /\ closed[n] = opened[n] /\ ~Registered(n))
        => /\ n \notin DOMAIN deps.module_version
           /\ n \notin DOMAIN deps.deps_by_module
           /\ \A d \in DOMAIN deps.module_by_dep : n \notin Range(deps.module_by_dep[d])

\* ------------------------------------------------ properties of the teardown

\* the hooks of the close protocol of a module, in the order module_close
\* calls them
CloseSequence(module, n, builtin) ==
    (IF ~builtin /\ Managed(module) THEN <<H_uninit>> ELSE <<>>)
    \o (IF Exports(module.lib, n, H_close) THEN <<H_close>> ELSE <<>>)

\* an uninstall called in the host while it is the root installer
RootUninstall == statics["host"] = DataRoot /\ UninstallCall("host")

\* the uninit hook of b, a module registered before the step, was called in
\* the step and did not return
StoppedIn(b) ==
    /\ status' # "running"
    /\ hooks'[b] = Append(hooks[b], H_uninit)

Described == parse_metadata(Tail(descriptor_of(scan.segments)))

\* the first and the last byte (1-based) of the descriptor in the file of
\* the scan, from the header to the closing zero byte
DescriptorFirst == scan.before + Len(scan.run) + scan.between + 2
DescriptorLast == Len(scan.file)

\* the read chunk that holds byte i of the file
ChunkOf(i) == (i - 1) \div BufferSize

\* C24: wherever the descriptor lies relative to the read chunks, in a file
\* that holds no other 'B', load_metadata returns what the descriptor parses
\* to
C24_ChunkIndependent ==
    (scan.pc = "returned" /\ scan.run = <<>>)
        => scan.res = Described.res /\ scan.metadata = Described.metadata

\* the descriptor lies in one read chunk: load_metadata returns what it
\* parses to
C24_WithinOneChunk ==
    (/\ scan.pc = "returned" /\ scan.run = <<>>
     /\ ChunkOf(DescriptorFirst) = ChunkOf(DescriptorLast))
        => scan.res = Described.res /\ scan.metadata = Described.metadata


\* the first and the last byte of the run before the descriptor in the file
\* of the scan: from its 'B' to the zero byte that ends it
RunFirst == scan.before + 1
RunLast == scan.before + Len(scan.run) + scan.between + 1

\* C25: a run from a 'B' to a zero byte that does not begin with the header
\* is dropped and the scan goes on after it: the descriptor that lies after
\* the run, within one read chunk, is found
C25_ResumesAfterRun ==
    (/\ scan.pc = "returned" /\ scan.run # <<>>
     /\ ChunkOf(DescriptorFirst) = ChunkOf(DescriptorLast))
        => scan.res = Described.res /\ scan.metadata = Described.metadata

\* the run and the descriptor after it lie in the same read chunk: the
\* descriptor is found
C25_ResumesWithinOneChunk ==
    (/\ scan.pc = "returned" /\ scan.run # <<>>
     /\ ChunkOf(RunFirst) = ChunkOf(DescriptorLast))
        => scan.res = Described.res /\ scan.metadata = Described.metadata


\* ------------------------------------------- properties of the names

\* C26: each operation that takes a name answers a name written with a
\* hyphen as it answers the name written with an underscore
C26_NormalizedNames ==
    \A n \in HyphenNames :
        \E this \in {Locked.this} : \E env \in {Locked.env} :
            \E m \in {ReplaceChar(n, "-", "_")} :
                /\ _load(this, env, n) = _load(this, env, m)
                /\ _load_self(this, env, n) = _load_self(this, env, m)
                /\ _load_builtin(this, env, n) = _load_builtin(this, env, m)
                /\ \A relock \in Relock :
                       _unload(this, env, n, relock) = _unload(this, env, m, relock)
                /\ _get_module(this, n) = _get_module(this, m)
                /\ _get_builtin(this, n) = _get_builtin(this, m)

\* u_v and w_z are registered by calls that wrote u-v and w-z, and a lookup
\* of a hyphen name found its module
C26_Witness ==
    /\ N_uv \in DOMAIN module_name_to_id
    /\ N_wz \in DOMAIN module_name_to_id
    /\ result.op \in {"get_module", "get_builtin"}
    /\ result.kind = "Some"
    /\ result.id \in {module_name_to_id[N_uv], module_name_to_id[N_wz]}


\* ------------------------------------------- properties of unload

\* C27: unload of a name that is not registered returns NotFound with the
\* name and leaves the loader as it was: no table, count or hook changes;
\* no registered module has a reference count below 1
C27_UnloadUnregistered ==
    [][/\ \A n \in LoaderNames :
              (/\ n \notin DOMAIN module_name_to_id
               /\ result'.op = "unload"
               /\ \E relock \in Relock : Unload(n, relock))
                  => /\ result'.kind = "NotFound"
                     /\ result'.name = n
                     /\ UNCHANGED <<registry_vars, deps, hook_vars, count_vars>>
       /\ \A id \in DOMAIN modules' : modules'[id].ref_count >= 1
       /\ \A id \in DOMAIN builtin_modules' : builtin_modules'[id].ref_count >= 1]_vars

\* an unload of a name that is not registered answered NotFound while
\* another module was registered with two references
C27_Witness ==
    /\ result.op = "unload"
    /\ result.kind = "NotFound"
    /\ result.name \in LoaderNames
    /\ result.name \notin DOMAIN module_name_to_id
    /\ \E id \in DOMAIN modules : modules[id].ref_count = 2


\* ------------------------------------------- properties of the errors

\* the version that the candidate metadata declares for dependency name
DeclaredVersions(metadata, name) ==
    {pair.version : pair \in {p \in Range(parse_key_value_pairs(metadata[K_DEPS]).pairs) :
                                 p.ok /\ p.name = name}}

\* the versions on record for dependency name: the master's and the accepted
\* module's
RecordedVersions(name) ==
    (IF name \in DOMAIN deps.master THEN {deps.master[name].version} ELSE {})
    \cup (IF name \in DOMAIN deps.module_version
          THEN {deps.module_version[name]} ELSE {})
    \cup {deps.deps_by_module[m][name].version :
            m \in {k \in DOMAIN deps.deps_by_module :
                      name \in DOMAIN deps.deps_by_module[k]}}

\* the error of check_metadata on a candidate that the table does not hold
Refusal(metadata) == check_metadata(metadata, deps).res

\* C28: an IncompatibleDep error of check_metadata names a dependency of the
\* candidate, a version on record for it as expected version, and the
\* version the candidate declared for it as actual version
C28_ReportedVersions ==
    \A metadata \in RelationCandidates :
        (/\ metadata[K_NAME] \notin DOMAIN deps.module_version
         /\ Refusal(metadata).kind = "IncompatibleDep")
            => /\ Refusal(metadata).expected_version
                    \in RecordedVersions(Refusal(metadata).name)
               /\ Refusal(metadata).actual_version
                    \in DeclaredVersions(metadata, Refusal(metadata).name)

\* the same for the errors of the checks against the master and against the
\* tables of the modules that depend on the candidate, which check_deps
\* builds
C28_ReportedByCheckDeps ==
    \A metadata \in RelationCandidates :
        (/\ metadata[K_NAME] \notin DOMAIN deps.module_version
         /\ Refusal(metadata).kind = "IncompatibleDep"
         /\ Refusal(metadata).name \notin DOMAIN deps.module_version)
            => /\ Refusal(metadata).expected_version
                    \in RecordedVersions(Refusal(metadata).name)
               /\ Refusal(metadata).actual_version
                    \in DeclaredVersions(metadata, Refusal(metadata).name)


\* ------------------------------------------- properties of parse_metadata

\* the scan found the descriptor of its file whole and parsed it
ParsedDescriptor ==
    /\ scan.pc = "returned"
    /\ scan.res.kind # "MissingMetadata"
    /\ scan.v = Tail(descriptor_of(scan.segments))

\* the index of the first '=' of a segment that holds one
FirstEquals(segment) ==
    CHOOSE i \in 1..Len(segment) :
        segment[i] = "=" /\ \A j \in 1..(i - 1) : segment[j] # "="

KeyOf(segment) == SubSeq(segment, 1, FirstEquals(segment) - 1)

ValueOf(segment) == SubSeq(segment, FirstEquals(segment) + 1, Len(segment))

\* the last segment of the descriptor with the key
LastWithKey(segments, key) ==
    segments[CHOOSE i \in 1..Len(segments) :
                /\ KeyOf(segments[i]) = key
                /\ \A j \in (i + 1)..Len(segments) : KeyOf(segments[j]) # key]

\* C29: parse_metadata answers InvalidUtf8 for bytes that are no text; for
\* text it accepts the descriptor iff every segment after the header holds
\* '=', and answers InvalidMetadata otherwise; on success each key maps to
\* the text after the first '=' of the last segment with that key
C29_ParseMetadata ==
    ParsedDescriptor =>
        IF \E i \in 1..Len(scan.segments) : XFF \in Range(scan.segments[i])
        THEN scan.res.kind = "InvalidUtf8"
        ELSE IF \E i \in 1..Len(scan.segments) : "=" \notin Range(scan.segments[i])
        THEN scan.res.kind = "InvalidMetadata"
        ELSE /\ scan.res = Ok
             /\ DOMAIN scan.metadata = {KeyOf(scan.segments[i]) : i \in 1..Len(scan.segments)}
             /\ \A key \in DOMAIN scan.metadata :
                    scan.metadata[key] = ValueOf(LastWithKey(scan.segments, key))

\* a descriptor with the key A twice was parsed: A maps to the later value
C29_Witness ==
    /\ ParsedDescriptor
    /\ scan.segments = <<<<"A", "=", "1">>, <<"A", "=", "2">>>>
    /\ scan.res = Ok
    /\ scan.metadata[<<"A">>] = <<"2">>

\* a descriptor with a segment without '=' was refused
C29_WitnessInvalid ==
    /\ ParsedDescriptor
    /\ scan.segments = <<<<"A", "=", "1">>, <<>>>>
    /\ scan.res.kind = "InvalidMetadata"


\* ------------------------------------------- properties of the wildcard

\* the index of the first "*" of a feature list that holds one
FirstStar(features) ==
    CHOOSE i \in 1..Len(features) :
        features[i] = STAR /\ \A j \in 1..(i - 1) : features[j] # STAR

\* the features listed before the first "*"
BeforeStar(features) == {features[i] : i \in 1..(FirstStar(features) - 1)}

\* the master entry of d lists features and then "*"
ExplicitThenStar(d) ==
    /\ d \in DOMAIN deps.master
    /\ STAR \in Range(deps.master[d].features)
    /\ BeforeStar(deps.master[d].features) # {}

\* the candidate of input x declares d, and each dependency it declares has
\* the version of the master's entry
VersionMatching(x, d) ==
    /\ \E i \in 1..Len(x[3]) : x[3][i][1] = d
    /\ \A i \in 1..Len(x[3]) :
           x[3][i][1] \in DOMAIN deps.master
               => deps.master[x[3][i][1]].version = x[3][i][2]

\* C30, as stated: against a master entry that lists features before "*", a
\* version-matching candidate is accepted iff the features it declares for
\* the dependency hold every feature listed before the first "*", and a
\* refusal is IncompatibleFeatureSet.
C30_ExplicitBeforeWildcard ==
    \A x \in MasterInputs : \A d \in DOMAIN deps.master :
        (ExplicitThenStar(d) /\ VersionMatching(x, d))
            => /\ Negotiate(x).res.ok
                    <=> BeforeStar(deps.master[d].features)
                            \subseteq DeclaredFeatures(x[4], d)
               /\ ~Negotiate(x).res.ok
                    => IsIncompatibleFeatureSet(Negotiate(x).res, d)

\* C30, amended: the candidate is accepted iff the features it declares for
\* the dependency hold every feature listed before the first "*" and none
\* of the master's negative features; a refusal is IncompatibleFeatureSet.
C30_ExplicitAndNegative ==
    \A x \in MasterInputs : \A d \in DOMAIN deps.master :
        (ExplicitThenStar(d) /\ VersionMatching(x, d))
            => /\ Negotiate(x).res.ok
                    <=> /\ BeforeStar(deps.master[d].features)
                               \subseteq DeclaredFeatures(x[4], d)
                        /\ Range(deps.master[d].negative_features)
                               \cap DeclaredFeatures(x[4], d) = {}
               /\ ~Negotiate(x).res.ok
                    => IsIncompatibleFeatureSet(Negotiate(x).res, d)

\* a candidate that declares a/abc and a/def was accepted by the master entry
\* a with the features a/abc, "*"
C30_Witness ==
    /\ ExplicitThenStar(N_a)
    /\ result.op = "check_metadata"
    /\ result.kind = "Ok"
    /\ N_m \in DOMAIN deps.deps_by_module
    /\ N_a \in DOMAIN deps.deps_by_module[N_m]
    /\ Range(deps.deps_by_module[N_m][N_a].features) = {F_abc, F_def}

\* a candidate without a/abc was refused by the master entry a with the
\* features a/abc, "*"
C30_WitnessRefused ==
    /\ ExplicitThenStar(N_a)
    /\ result.op = "check_metadata"
    /\ IsIncompatibleFeatureSet(result, N_a)
    /\ deps.master[N_a].negative_features = <<>>


\* ------------------------------------------- properties of unrelated modules

\* the candidate of input x has no relation with an accepted module and the
\* master table holds none of its dependencies: it lists no accepted module,
\* no accepted module lists it
Unrelated(x) ==
    /\ x[1] \notin DOMAIN deps.module_version
    /\ DependOn(x[1]) = {}
    /\ \A i \in 1..Len(x[3]) :
           /\ x[3][i][1] \notin DOMAIN deps.module_version
           /\ x[3][i][1] \notin DOMAIN deps.master

\* C31: a candidate without relation to the accepted modules is accepted and
\* committed, whatever versions the accepted modules recorded for the
\* dependencies it declares, when the master table holds none of them
C31_UnrelatedModules ==
    \A x \in RelationInputs :
        Unrelated(x) => /\ Negotiate(x).res.ok
                        /\ x[1] \in DOMAIN Negotiate(x).deps.module_version

\* m and p are accepted with different versions of a, neither lists the
\* other, the master table is empty
C31_Witness ==
    /\ deps.master = <<>>
    /\ result.op = "check_metadata" /\ result.kind = "Ok"
    /\ {N_m, N_p} \subseteq DOMAIN deps.deps_by_module
    /\ N_a \in DOMAIN deps.deps_by_module[N_m]
    /\ N_a \in DOMAIN deps.deps_by_module[N_p]
    /\ deps.deps_by_module[N_m][N_a].version # deps.deps_by_module[N_p][N_a].version


\* ------------------------------------------- properties of finalizing

\* this step is an unload that ran the close protocol of the managed module
\* n, which is not a builtin
Finalized(n) ==
    /\ n \in DOMAIN module_name_to_id
    /\ module_name_to_id[n] \in DOMAIN modules
    /\ K_TYPE \in DOMAIN modules[module_name_to_id[n]].metadata
    /\ modules[module_name_to_id[n]].metadata[K_TYPE] = T_RUST
    /\ result'.op = "unload"
    /\ closed'[n] = closed[n] + 1

\* after the step the loader of the host is installed as before and every
\* module but n is registered as before, with the ref_count it had
RegistryKept(n) ==
    /\ status' = "running"
    /\ result'.kind = "Ok"
    /\ statics'["host"] = statics["host"]
    /\ DOMAIN module_name_to_id' = DOMAIN module_name_to_id \ {n}
    /\ \A k \in DOMAIN module_name_to_id' :
           /\ module_name_to_id'[k] = module_name_to_id[k]
           /\ ModuleOf(module_name_to_id', modules', builtin_modules', k)
                = ModuleOf(module_name_to_id, modules, builtin_modules, k)

\* C32: the unload that finalizes a managed module returns and leaves the
\* host's loader installed and every other module registered with its
\* ref_count, for a module of a file and for a module of the host image
C32_FinalizeKeepsRegistry ==
    [][\A n \in LoaderNames : Finalized(n) => RegistryKept(n)]_vars

\* the same for the modules whose library is not the image of the host
C32_FinalizeFileModule ==
    [][\A n \in LoaderNames :
          (Finalized(n) /\ modules[module_name_to_id[n]].lib.image # "host")
              => RegistryKept(n)]_vars


\* ------------------------------------------- properties of the tables

\* the ids that the name index holds
IndexedIds == {module_name_to_id[n] : n \in DOMAIN module_name_to_id}

\* C33: the name index maps each registered name to an id that is a key of
\* exactly one of the two module maps, every key of either map is the id of
\* exactly one name, every registered module has a ref_count of 1 or more,
\* and every id in use is below the id counter
C33_RegistryConsistent ==
    /\ \A n \in DOMAIN module_name_to_id :
           (module_name_to_id[n] \in DOMAIN modules)
               # (module_name_to_id[n] \in DOMAIN builtin_modules)
    /\ \A id \in DOMAIN modules \cup DOMAIN builtin_modules :
           Cardinality({n \in DOMAIN module_name_to_id : module_name_to_id[n] = id}) = 1
    /\ \A id \in DOMAIN modules : modules[id].ref_count >= 1
    /\ \A id \in DOMAIN builtin_modules : builtin_modules[id].ref_count >= 1
    /\ \A id \in IndexedIds : id < last_module_id

\* a call failed while a module of each map was registered and an id was
\* retired by an unload
C33_Witness ==
    /\ result.kind \notin {"Ok", "none"}
    /\ DOMAIN modules # {}
    /\ DOMAIN builtin_modules # {}
    /\ Cardinality(IndexedIds) < last_module_id
    /\ \E n \in LoaderNames : closed[n] > 0


\* ------------------------------------------- properties of failed loads

\* this step is a load, load_self or load_builtin that returned an error
LoadFailed ==
    /\ result'.op \in {"load", "load_self", "load_builtin"}
    /\ result'.kind \notin {"Ok", "none"}
    /\ status' = "running"

\* C34: a load that returns an error leaves the module maps, the name index,
\* the id counter and the DepsMap as they were
C34_FailedLoadAtomic ==
    [][LoadFailed => UNCHANGED <<modules, builtin_modules, module_name_to_id,
                                 last_module_id, deps>>]_vars

\* a load that returns an error leaves the module maps, the name index and
\* the id counter as they were
C34_FailedLoadRegistersNothing ==
    [][LoadFailed => UNCHANGED <<modules, builtin_modules, module_name_to_id,
                                 last_module_id>>]_vars


\* ------------------------------------------- properties of the load order

\* the candidates of the inputs x and then y are both accepted, negotiated
\* in this order from the current table
BothAccepted(x, y) ==
    /\ Negotiate(x).res.ok
    /\ check_metadata(Cand(y[1], y[2], y[3], y[4]), Negotiate(x).deps).res.ok

\* C35: from a table that holds the master dependencies only, two candidates
\* of different names are both accepted in one order iff they are both
\* accepted in the other order
C35_OrderIndependent ==
    deps.module_version = <<>>
        => \A x, y \in RelationInputs :
               x[1] # y[1] => (BothAccepted(x, y) <=> BothAccepted(y, x))

\* the same for two candidates none of which lists the other
C35_OrderIndependentUnrelated ==
    deps.module_version = <<>>
        => \A x, y \in RelationInputs :
               (/\ x[1] # y[1]
                /\ \A i \in 1..Len(x[3]) : x[3][i][1] # y[1]
                /\ \A i \in 1..Len(y[3]) : y[3][i][1] # x[1])
                   => (BothAccepted(x, y) <=> BothAccepted(y, x))


\* ------------------------------------------- first use by several threads

\* MODULE_LOADER with the pointer it holds: loader is 0 for the null pointer
\* and t for the ModuleLoader that thread t leaked
DataPointer(loader) ==
    [is_set |-> loader # 0, is_root |-> loader # 0, loader |-> loader]

\* a process in which no thread has used the loader yet
InitFirstUse ==
    /\ paths = Released.paths
    /\ modules = Released.modules
    /\ builtin_modules = Released.builtin_modules
    /\ builtins = Released.builtins
    /\ deps = Released.deps
    /\ module_name_to_id = Released.module_name_to_id
    /\ last_module_id = Released.last_module_id
    /\ statics = [image \in {"host", "libm", "libd", "libr", "c"} |->
                    IF image = "host" THEN DataPointer(0) ELSE DataNull]
    /\ hooks = [n \in Names |-> <<>>]
    /\ status = "running"
    /\ loads = [n \in Names |-> 0]
    /\ unloads = [n \in Names |-> 0]
    /\ opened = [n \in Names |-> 0]
    /\ closed = [n \in Names |-> 0]
    /\ result = NoResult
    /\ holder = 0
    /\ threads = [t \in Threads |-> ThreadIdle]
    /\ scan = NoScan

\* thread t calls ModuleLoader::install(Builtins) (op "install") or
\* ModuleLoader::lock() (op "lock")
FirstUse(t, op) ==
    /\ threads[t].pc = "idle"
    /\ threads[t].calls < MaxCalls
    /\ threads' = [threads EXCEPT
                      ![t].pc = IF op = "lock" THEN "checking" ELSE "installing",
                      ![t].op = op,
                      ![t].id = -1,
                      ![t].calls = @ + 1]
    /\ UNCHANGED <<registry_vars, deps, hook_vars, count_vars, result, holder, scan>>

\* MODULE_LOADER.is_set() in _lock of thread t
IsSet(t) ==
    /\ threads[t].pc = "checking"
    /\ threads' = [threads EXCEPT
                      ![t].pc = IF statics["host"].loader # 0 THEN "getting"
                                ELSE "installing"]
    /\ UNCHANGED <<registry_vars, deps, hook_vars, count_vars, result, holder, scan>>

\* self.loader.load(SeqCst) in Data::install of thread t
DataLoad(t) ==
    /\ threads[t].pc = "installing"
    /\ threads' = [threads EXCEPT
                      ![t].pc = "loaded",
                      ![t].found = statics["host"].loader # 0]
    /\ UNCHANGED <<registry_vars, deps, hook_vars, count_vars, result, holder, scan>>

\* the rest of Data::install in thread t: on a null pointer it stores the
\* leaked loader of t and answers true; on false ModuleLoader::install panics
DataStore(t) ==
    /\ threads[t].pc = "loaded"
    /\ IF threads[t].found
       THEN /\ threads' = [threads EXCEPT ![t].pc = "panicked", ![t].kind = "false"]
            /\ UNCHANGED <<registry_vars, deps, hook_vars, result>>
       ELSE /\ threads' = [threads EXCEPT
                              ![t].pc = IF threads[t].op = "lock" THEN "getting"
                                        ELSE "idle",
                              ![t].kind = "true"]
            /\ Leaves("install",
                      Outcome(Ok, -1,
                              ModuleLoaderNew(IF threads[t].op = "lock" THEN <<>>
                                              ELSE Builtins),
                              [Env EXCEPT !.statics["host"] = DataPointer(t)],
                              FALSE, FALSE))
    /\ UNCHANGED <<count_vars, holder, scan>>

\* MODULE_LOADER.get() in _lock of thread t: the loader the guard will be of
DataGet(t) ==
    /\ threads[t].pc = "getting"
    /\ threads' = [threads EXCEPT ![t].pc = "waiting", ![t].id = statics["host"].loader]
    /\ UNCHANGED <<registry_vars, deps, hook_vars, count_vars, result, holder, scan>>

\* Mutex::lock of the loader that thread t got returns the guard: no thread
\* holds a guard of that loader
Guard(t) ==
    /\ threads[t].pc = "waiting"
    /\ \A u \in Threads : ~(threads[u].pc = "locked" /\ threads[u].id = threads[t].id)
    /\ threads' = [threads EXCEPT ![t].pc = "locked"]
    /\ holder' = t
    /\ UNCHANGED <<registry_vars, deps, hook_vars, count_vars, result, scan>>

\* the guard of thread t is dropped
Drop(t) ==
    /\ threads[t].pc = "locked"
    /\ threads' = [threads EXCEPT ![t].pc = "idle"]
    /\ holder' = IF \E u \in Threads \ {t} : threads[u].pc = "locked"
                 THEN CHOOSE u \in Threads \ {t} : threads[u].pc = "locked"
                 ELSE 0
    /\ UNCHANGED <<registry_vars, deps, hook_vars, count_vars, result, scan>>

NextFirstUse ==
    \/ \E t \in Threads : \E op \in {"install", "lock"} : FirstUse(t, op)
    \/ \E t \in Threads : IsSet(t)
    \/ \E t \in Threads : DataLoad(t)
    \/ \E t \in Threads : DataStore(t)
    \/ \E t \in Threads : DataGet(t)
    \/ \E t \in Threads : Guard(t)
    \/ \E t \in Threads : Drop(t)

SpecFirstUse == InitFirstUse /\ [][NextFirstUse]_vars

\* ------------------------------------------- properties of the first use

\* the published pointer, once set, is not replaced
NotOverwritten ==
    statics["host"].loader # 0 => statics'["host"].loader = statics["host"].loader

\* the guards that the threads got are of one loader
SameGuards ==
    \A t, u \in Threads :
        (threads[t].pc = "locked" /\ threads[u].pc = "locked")
            => threads[t].id = threads[u].id

\* at most one thread saw Data::install answer true
OneSuccess == Cardinality({t \in Threads : threads[t].kind = "true"}) <= 1

\* C36: under every interleaving of first uses (install and lock), the
\* published loader is never replaced, all guards are of the same loader and
\* at most one call sees a successful installation
C36_OnePublished == [][NotOverwritten]_vars /\ [](SameGuards /\ OneSuccess)

\* each part on its own
C36_NotOverwritten == [][NotOverwritten]_vars
C36_SameGuards == SameGuards
C36_OneSuccess == OneSuccess


\* ------------------------------------------- properties of feature tokens

\* a crate whose name starts with the name of crate a, and one of its features
N_ab == <<"a", "b">>
F_ab_x == <<"a", "b", "/", "x">>

\* candidates that depend on a and on ab: <<name, version, dependency list,
\* feature list>>
PrefixInputs ==
    {N_m} \X {V100} \X {<<<<N_a, V100>>, <<N_ab, V100>>>>}
          \X {<<>>, <<F_ab_x>>, <<F_abc>>, <<F_abc, F_ab_x>>, <<F_abc, F_def, F_ab_x>>}

\* the input x without the feature tokens that start with the name of d and
\* are not of the form d/feature
OwnOnly(x, d) ==
    <<x[1], x[2], x[3],
      SelectSeq(x[4], LAMBDA t : StartsWith(t, d) => StartsWith(t, d \o <<"/">>))>>

\* C37: the tokens of ab change neither the outcome of the check of a
\* candidate against the master record of a nor the features recorded for a
\* on commit
C37_OwnTokensOnly ==
    \A x \in PrefixInputs :
        /\ Negotiate(x).res = Negotiate(OwnOnly(x, N_a)).res
        /\ Negotiate(x).res.ok
              => Range(Negotiate(x).deps.deps_by_module[x[1]][N_a].features)
                    = DeclaredFeatures(x[4], N_a)

\* the tokens of the form a/feature are all attributed to a
C37_OwnTokensCounted ==
    \A x \in PrefixInputs :
        Negotiate(x).res.ok
            => DeclaredFeatures(x[4], N_a)
                  \subseteq Range(Negotiate(x).deps.deps_by_module[x[1]][N_a].features)


\* ------------------------------------------- properties of negative features

\* the ways a caller of add_public_dependency can write the negative feature
\* def of crate a: like the positive features ("/def" after the '-'), with
\* the name of the crate, or bare
NegativeTokens ==
    {<<"-", "/", "d", "e", "f">>, <<"-">> \o F_def, <<"-", "d", "e", "f">>}

\* the table after add_public_dependency(a, 1.0.0, ["*", f])
Registered_a(f) == add_public_dependency(deps, N_a, V100, <<STAR, f>>)

\* the table with the negative feature a/def placed in the master record of a
Placed_a == add_dep(deps, N_a, Dependency(V100, <<STAR>>, <<F_def>>))

\* C38: for some way of writing it, the negative feature that
\* add_public_dependency registers is enforced like the one placed in the
\* master record: every candidate has the same outcome in both tables
C38_NegativeEnforced ==
    \E f \in NegativeTokens :
        \A x \in MasterInputs :
            check_metadata(Cand(x[1], x[2], x[3], x[4]), Registered_a(f)).res
                = check_metadata(Cand(x[1], x[2], x[3], x[4]), Placed_a).res

\* the negative feature placed in the master record refuses the candidates
\* that declare it, and the registered one refuses none of them
C38_NegativeIgnored ==
    \A f \in NegativeTokens :
        \A x \in MasterInputs :
            (/\ \E i \in 1..Len(x[3]) : x[3][i] = <<N_a, V100>>
             /\ \A i \in 1..Len(x[3]) : x[3][i][1] = N_b => N_b \notin DOMAIN deps.master
             /\ F_def \in Range(x[4]))
                => /\ IsIncompatibleFeatureSet(
                          check_metadata(Cand(x[1], x[2], x[3], x[4]), Placed_a).res, N_a)
                   /\ check_metadata(Cand(x[1], x[2], x[3], x[4]), Registered_a(f)).res.ok


\* ------------------------------------------- a close protocol that fails

\* the names of a host that loads k, whose uninit hook is missing, and c
CloseNames == {N_k, N_c}

NextClose ==
    \/ \E name \in CloseNames : Load(name)
    \/ \E name \in CloseNames : \E relock \in Relock : Unload(name, relock)
    \/ AddSearchPath(D1)
    \/ RemoveSearchPath(D1)

SpecClose == Init /\ [][NextClose]_vars

\* the last call was an unload that returned the error of a missing uninit
\* hook: the last unload of k
ClosedWithError ==
    result.op = "unload" /\ result.kind = "MissingModuleInitForRust"

\* C39: after the unload of k that brought ref_count to 0 and returned the
\* error of the close protocol, the name and the module are not registered,
\* an unload of the name returns NotFound and a load of the name registers a
\* fresh module under an id never given before
C39_RemovedDespiteError ==
    ClosedWithError
        => /\ ~Registered(N_k)
           /\ \A id \in DOMAIN modules : modules[id].metadata[K_NAME] # N_k
           /\ \A relock \in Relock :
                  _unload(This, Env, N_k, relock).res.kind = "NotFound"
           /\ find_library(Files, paths, 1, N_k).some
                  => /\ _load(This, Env, N_k).res.ok
                     /\ _load(This, Env, N_k).fresh
                     /\ _load(This, Env, N_k).id = last_module_id
                     /\ _load(This, Env, N_k).id \notin DOMAIN modules

\* k was unloaded with the error while its file can still be found
C39_Witness ==
    ClosedWithError /\ find_library(Files, paths, 1, N_k).some /\ opened[N_k] >= 1


\* ------------------------------------------- negotiation before execution

\* the errors of check_metadata
Refusals ==
    {"IncompatibleDep", "IncompatibleFeatureSet", "IncompatibleRustc",
     "InvalidMetadata", "InvalidDepFormat"}

\* C40: a load from a file that the negotiation refuses runs no hook of the
\* candidate and leaves the statics of every image alone: the library was
\* not opened
C40_NegotiationFirst ==
    [][(result'.op = "load" /\ result'.kind \in Refusals)
          => hooks' = hooks /\ statics' = statics]_vars

\* the load of m from its file was refused for its dependency a
C40_Witness ==
    /\ result.op = "load"
    /\ result.kind = "IncompatibleDep"
    /\ result.name = N_a
    /\ find_library(Files, paths, 1, N_m).some
    /\ ~Registered(N_m)

====
